---- MODULE Spec2Model ----
(***************************************************************************)
(* A model of Railyard's semantic code search: the dual-table search       *)
(* engine of cocoindex/mcp_server.py (query_table, merge_results, search,  *)
(* refresh_overlay) and the overlay indexer of cocoindex/overlay.py        *)
(* (build) with cleanup and status of cmd/ry/cocoindex_overlay.py.  One    *)
(* set of variables holds the vector store, the worktree, the tool         *)
(* server's process state and the positions of the running operations;     *)
(* each subsystem has a specification of its own:                          *)
(*   SpecSearch     search_code over fixed table contents                  *)
(*   SpecMerge      merge_results called on complete row lists             *)
(*   SpecBuild      overlay build, its transaction, concurrent readers     *)
(*   SpecLifecycle  build, cleanup and status of one engine in sequence    *)
(*   SpecRefresh    overlay_refresh and its cooldown                       *)
(*   SpecNames      overlay_table_name on any engine id                    *)
(*   SpecCommands   build, cleanup and status given any engine id          *)
(*   SpecRebuild    builds that follow builds of the same engine           *)
(*   SpecChunks     chunk_text, one loop iteration per step                *)
(*   SpecBuildAll   the per-track orchestrator of build_all                *)
(*   SpecConnections  the connection each database operation opens        *)
(*   SpecSearchDuringBuild  an engine-mode search while a build runs       *)
(*   SpecRefreshRace  two overlay_refresh calls on two threads             *)
(*   SpecListed     search_code under a configuration loaded from the      *)
(*                  environment, with main tables listed                   *)
(*   SpecSql        the table names a search writes into SQL text          *)
(*   SpecMigrations run_migrations of cocoindex/migrate.py, call on call   *)
(***************************************************************************)
EXTENDS Integers, Sequences, FiniteSets, TLC

None == "none"

Min(a, b) == IF a < b THEN a ELSE b

Max(a, b) == IF a > b THEN a ELSE b

(***************************************************************************)
(* Strings the program takes apart (engine ids, paths, glob patterns,      *)
(* file contents) are sequences of one-character strings; Join makes the   *)
(* string a table name, a filename or a location is stored as.             *)
(***************************************************************************)
RECURSIVE Join(_)
Join(chars) == IF chars = <<>> THEN "" ELSE Head(chars) \o Join(Tail(chars))

\* The characters _SAFE_ID_RE accepts, among the characters of the model.
SafeChars == {"e", "n", "g", "E", "1", "2", "_", "-"}

\* _SAFE_ID_RE.match(engine_id): ^[a-zA-Z0-9_-]+$ ; in Python, $ also
\* matches just before a newline that ends the string.
SafeIdMatch(engine_id) ==
    LET body == IF engine_id # <<>> /\ engine_id[Len(engine_id)] = "\n"
                THEN SubSeq(engine_id, 1, Len(engine_id) - 1)
                ELSE engine_id
    IN body # <<>> /\ \A i \in DOMAIN body : body[i] \in SafeChars

ValueError == "ValueError"

\* overlay_table_name: the prefix followed by the id with '-' replaced by '_'.
overlay_table_name(engine_id, prefix) ==
    IF ~SafeIdMatch(engine_id) THEN ValueError
    ELSE prefix \o Join([i \in DOMAIN engine_id |->
                            IF engine_id[i] = "-" THEN "_" ELSE engine_id[i]])

DEFAULT_OVERLAY_TABLE_PREFIX == "ovl_"

(***************************************************************************)
(* The universe of rows.  A key is (filename, location).  a.go has two     *)
(* chunks, b.go one.                                                       *)
(***************************************************************************)
\* The paths of the worktree, in the order git lists them.
FileSeq == << <<"a", ".", "g", "o">>, <<"b", ".", "g", "o">> >>

Filenames == {Join(FileSeq[i]) : i \in DOMAIN FileSeq}

KeySeq == <<(<<"a.go", "0:0">>), (<<"a.go", "1:1200">>), (<<"b.go", "0:0">>)>>

Keys == {KeySeq[i] : i \in DOMAIN KeySeq}

MainTable == "main_backend_embeddings"

MainTable2 == "main_frontend_embeddings"

EngineIdChars == <<"e", "n", "g", "-", "1">>

EngineId == Join(EngineIdChars)

OverlayTable == overlay_table_name(EngineIdChars, DEFAULT_OVERLAY_TABLE_PREFIX)

\* The index build creates on an overlay table.
IndexName(table) == "idx_" \o table \o "_embedding"

TableNames == {MainTable, MainTable2, OverlayTable}

\* The chunk text a table stores under a key.  Main tables index mainline
\* content, the overlay indexes the branch's changed content; the two main
\* tables belong to different tracks.
CodesOf(t) ==
    IF t = OverlayTable THEN {"new"}
    ELSE IF t = MainTable THEN {"old"} ELSE {"other"}

(***************************************************************************)
(* Scores.  A stored row's similarity to the query (1 - cosine distance)   *)
(* is an integer count of thirds of 0.0001, so that round(score, 4) is a   *)
(* real conversion: it moves a value to the nearest multiple of 3 and no   *)
(* value lies half way.                                                    *)
(***************************************************************************)
MaxRaw == 2

MaxTopK == 2

MaxRows == 3

Raws == 0..MaxRaw

\* The scores stored rows are given: the lowest, one that rounding lowers,
\* and the highest.
StoredRaws == {0, 1, MaxRaw}

\* round(float(score), 4)
Round4(raw) ==
    CASE raw % 3 = 0 -> raw
      [] raw % 3 = 1 -> raw - 1
      [] OTHER       -> raw + 1

KeyOf(r) == <<r.filename, r.location>>

\* Orders in which the store may return rows of equal distance: the rotations
\* of KeySeq, in which every two keys occur in both relative orders and every
\* key occurs last.
TieOrders ==
    {[j \in DOMAIN KeySeq |-> KeySeq[((j + i) % Len(KeySeq)) + 1]] : i \in DOMAIN KeySeq}

Pos(ord, k) == CHOOSE i \in DOMAIN ord : ord[i] = k

VARIABLES
    config,         \* ServerConfig of the tool server process
    tables,         \* table name -> set of rows [filename, location, code, raw]
    exists,         \* the table names that exist in the store
    overlay_meta,   \* the overlay_meta table: a set of rows, one per engine_id at most
    s_args,         \* the last call of search_code or of a function, and its arguments
    s_result,       \* what that call returned or raised, or NoCall
    worktree,       \* the engine's git worktree: HEAD, the diff against main, the files on disk
    build,          \* the local variables of the overlay build process and its position
    tx,             \* the open transaction of the build's database connection
    b_result,       \* how the last build ended: its printed result, or the error it raised
    history,        \* what the commands so far did (for the statements about them)
    reader,         \* what a reader of the overlay table saw while the build ran
    cli,            \* what the last cleanup or status command printed or raised
    now,            \* time.time(), in ticks
    last_refresh_time,  \* _last_refresh_time of the server process, in ticks
    r_result,       \* what the last overlay_refresh call returned or raised
    r_log           \* the overlay_refresh calls so far that spawned the build subprocess

storeVars == <<tables, exists, overlay_meta>>

searchVars == <<config, s_args, s_result>>

buildVars == <<worktree, build, tx, b_result, history, reader, cli>>

refreshVars == <<now, last_refresh_time, r_result, r_log>>

vars == <<storeVars, searchVars, buildVars, refreshVars>>

(***************************************************************************)
(* query_table: ORDER BY distance LIMIT 2*top_k, then the min_score        *)
(* filter on the unrounded score, then rounding.                           *)
(***************************************************************************)
RECURSIVE OrderByDistance(_, _)
OrderByDistance(rows, ord) ==
    IF rows = {} THEN <<>>
    ELSE LET first == CHOOSE r \in rows : \A q \in rows \ {r} :
                         \/ r.raw > q.raw
                         \/ r.raw = q.raw /\ Pos(ord, KeyOf(r)) < Pos(ord, KeyOf(q))
         IN <<first>> \o OrderByDistance(rows \ {first}, ord)

Limit(seq, n) == SubSeq(seq, 1, Min(n, Len(seq)))

ResultRow(r, t) ==
    [filename |-> r.filename, code |-> r.code, location |-> r.location,
     score |-> Round4(r.raw), src |-> t]

RECURSIVE MapFilter(_, _, _)
MapFilter(seq, t, min_score) ==
    IF seq = <<>> THEN <<>>
    ELSE LET rest == MapFilter(Tail(seq), t, min_score)
         IN IF Head(seq).raw >= min_score
            THEN <<ResultRow(Head(seq), t)>> \o rest
            ELSE rest

query_table(t, ord, top_k, min_score) ==
    MapFilter(Limit(OrderByDistance(tables[t], ord), top_k * 2), t, min_score)

\* The statement fails when the table does not exist.
QueryRaises(t) == t \notin exists

ItemsOf(list) == {list[i] : i \in DOMAIN list}

\* get_deleted_files of mcp_server.py.  The deleted_files column holds a JSON
\* list, here the sequence of filenames in the order build computed it; no
\* row is the empty set, otherwise the result is the set of the list's items.
get_deleted_files(engine_id) ==
    LET found == {m \in overlay_meta : m.engine_id = engine_id}
    IN IF found = {} THEN {}
       ELSE ItemsOf((CHOOSE m \in found : TRUE).deleted_files)

(***************************************************************************)
(* merge_results.  `merged` is a Python dict: a key keeps the position of  *)
(* its first insertion and the value of its last.                          *)
(***************************************************************************)
HasKey(seq, k) == \E i \in DOMAIN seq : KeyOf(seq[i]) = k

DictPut(seq, r) ==
    IF HasKey(seq, KeyOf(r))
    THEN [i \in DOMAIN seq |-> IF KeyOf(seq[i]) = KeyOf(r) THEN r ELSE seq[i]]
    ELSE Append(seq, r)

RECURSIVE IndexOverlay(_)
IndexOverlay(overlay_results) ==
    IF overlay_results = <<>> THEN <<>>
    ELSE DictPut(IndexOverlay(SubSeq(overlay_results, 1, Len(overlay_results) - 1)),
                 overlay_results[Len(overlay_results)])

\* AddMain without the deleted_files test.
AddMainKeepsDeleted(merged, r, deleted_set) ==
    IF HasKey(merged, KeyOf(r)) THEN merged ELSE Append(merged, r)

\* AddMain without the overlay-wins test.
AddMainOverOverlay(merged, r, deleted_set) ==
    IF r.filename \in deleted_set THEN merged ELSE Append(merged, r)

\* One iteration of the loop over main_results.
AddMain(merged, r, deleted_set) ==
    IF r.filename \in deleted_set THEN merged
    ELSE IF HasKey(merged, KeyOf(r)) THEN merged
    ELSE Append(merged, r)

RECURSIVE AddMainResults(_, _, _)
AddMainResults(merged, main_results, deleted_set) ==
    IF main_results = <<>> THEN merged
    ELSE AddMainResults(AddMain(merged, Head(main_results), deleted_set),
                        Tail(main_results), deleted_set)

\* sorted(..., key=score, reverse=True): stable, equal scores keep their order.
InsertDesc(sorted, r) ==
    LET n == Cardinality({i \in DOMAIN sorted : sorted[i].score >= r.score})
    IN SubSeq(sorted, 1, n) \o <<r>> \o SubSeq(sorted, n + 1, Len(sorted))

RECURSIVE SortDesc(_)
SortDesc(seq) ==
    IF seq = <<>> THEN <<>>
    ELSE InsertDesc(SortDesc(SubSeq(seq, 1, Len(seq) - 1)), seq[Len(seq)])

AtLeast(seq, min_score) == SelectSeq(seq, LAMBDA r : r.score >= min_score)

\* The dict after both loops: the candidates of the merge.
Merged(main_results, overlay_results, deleted_files) ==
    AddMainResults(IndexOverlay(overlay_results), main_results, deleted_files)

merge_results(main_results, overlay_results, deleted_files, top_k, min_score) ==
    Limit(AtLeast(SortDesc(Merged(main_results, overlay_results, deleted_files)),
                  min_score), top_k)

(***************************************************************************)
(* search.  A result is [status, rows, merged]: rows is the returned list, *)
(* merged the candidate list of the call (the dict `merged` or `seen`, or  *)
(* the single table's `results`) before sorting, filtering and cutting;    *)
(* status "error" is an exception that leaves search.                      *)
(***************************************************************************)
Ok(rows, merged) == [status |-> "ok", rows |-> rows, merged |-> merged]

NoCall == [op |-> "none"]

Raised == [status |-> "error", rows |-> <<>>, merged |-> <<>>]

\* The dispatcher's fan-out: a table whose query raises contributes nothing.
RECURSIVE AllResults(_, _, _, _)
AllResults(names, ords, top_k, min_score) ==
    IF names = <<>> THEN <<>>
    ELSE (IF QueryRaises(Head(names)) THEN <<>>
          ELSE query_table(Head(names), Head(ords), top_k, min_score))
         \o AllResults(Tail(names), Tail(ords), top_k, min_score)

\* A dictionary that keeps the row it saw first under a key.
SeenPutKeepsFirst(seen, r) == IF ~HasKey(seen, KeyOf(r)) THEN Append(seen, r) ELSE seen

\* seen[key] = r when the key is new or r scores strictly higher.
SeenPut(seen, r) ==
    IF ~HasKey(seen, KeyOf(r)) THEN Append(seen, r)
    ELSE [i \in DOMAIN seen |->
            IF KeyOf(seen[i]) = KeyOf(r) /\ r.score > seen[i].score THEN r ELSE seen[i]]

RECURSIVE Seen(_)
Seen(all_results) ==
    IF all_results = <<>> THEN <<>>
    ELSE SeenPut(Seen(SubSeq(all_results, 1, Len(all_results) - 1)),
                 all_results[Len(all_results)])

\* A dispatcher that lets the exception of a future's result() pass.
SearchDispatcherReraises(cfg, ords, top_k, min_score) ==
    IF \E i \in DOMAIN cfg.main_tables : QueryRaises(cfg.main_tables[i]) THEN Raised
    ELSE LET seen == Seen(AllResults(cfg.main_tables, ords, top_k, min_score))
         IN Ok(Limit(AtLeast(SortDesc(seen), min_score), top_k), seen)

SearchDispatcher(cfg, ords, top_k, min_score) ==
    LET seen == Seen(AllResults(cfg.main_tables, ords, top_k, min_score))
    IN Ok(Limit(AtLeast(SortDesc(seen), min_score), top_k), seen)

SearchSingle(cfg, ords, top_k, min_score) ==
    IF QueryRaises(cfg.main_table) THEN Raised
    ELSE LET results == query_table(cfg.main_table, ords[1], top_k, min_score)
         IN Ok(Limit(results, top_k), results)

SearchEngine(cfg, ords, top_k, min_score) ==
    IF QueryRaises(cfg.main_table) \/ QueryRaises(cfg.overlay_table) THEN Raised
    ELSE LET main_results    == query_table(cfg.main_table, ords[1], top_k, min_score)
             overlay_results == query_table(cfg.overlay_table, ords[2], top_k, min_score)
             deleted == IF cfg.engine_id # None THEN get_deleted_files(cfg.engine_id) ELSE {}
         IN Ok(merge_results(main_results, overlay_results, deleted, top_k, min_score),
               Merged(main_results, overlay_results, deleted))

\* A search that fans out over the listed main tables whether or not an
\* overlay table is configured.
searchListedFirst(cfg, ords, top_k, min_score) ==
    IF cfg.main_table = None /\ cfg.main_tables = <<>> THEN Ok(<<>>, <<>>)
    ELSE IF cfg.main_tables # <<>> THEN SearchDispatcher(cfg, ords, top_k, min_score)
    ELSE IF cfg.overlay_table = None THEN SearchSingle(cfg, ords, top_k, min_score)
    ELSE SearchEngine(cfg, ords, top_k, min_score)

search(cfg, ords, top_k, min_score) ==
    IF cfg.main_table = None /\ cfg.main_tables = <<>> THEN Ok(<<>>, <<>>)
    ELSE IF cfg.main_tables # <<>> /\ cfg.overlay_table = None
         THEN SearchDispatcher(cfg, ords, top_k, min_score)
    ELSE IF cfg.overlay_table = None THEN SearchSingle(cfg, ords, top_k, min_score)
    ELSE SearchEngine(cfg, ords, top_k, min_score)

(***************************************************************************)
(* The server configurations load_server_config can produce.               *)
(***************************************************************************)
CfgSingle ==
    [engine_id |-> None, main_table |-> MainTable, main_tables |-> <<>>,
     overlay_table |-> None, worktree |-> None, track |-> None]

CfgDispatcher ==
    [engine_id |-> None, main_table |-> MainTable,
     main_tables |-> <<MainTable, MainTable2>>, overlay_table |-> None,
     worktree |-> None, track |-> None]

CfgEngine ==
    [engine_id |-> EngineId, main_table |-> MainTable, main_tables |-> <<>>,
     overlay_table |-> OverlayTable, worktree |-> "/worktree", track |-> "backend"]

CfgNoMain ==
    [engine_id |-> EngineId, main_table |-> None, main_tables |-> <<>>,
     overlay_table |-> OverlayTable, worktree |-> "/worktree", track |-> "backend"]

Configs == {CfgSingle, CfgDispatcher, CfgEngine, CfgNoMain}

EngineMode(cfg) ==
    /\ cfg.overlay_table # None
    /\ cfg.main_table # None \/ cfg.main_tables # <<>>

\* The tables a configuration names.
TablesOf(cfg) ==
    ({cfg.main_table, cfg.overlay_table} \cup {cfg.main_tables[i] : i \in DOMAIN cfg.main_tables})
        \ {None}

Row(t, k, raw) ==
    [filename |-> k[1], location |-> k[2], code |-> CHOOSE c \in CodesOf(t) : TRUE,
     raw |-> raw]

FilenamesIn(rows) == {r.filename : r \in rows}

\* The filenames of a set, as the list git gives.
ListOf(files) == SelectSeq([i \in DOMAIN FileSeq |-> Join(FileSeq[i])], LAMBDA f : f \in files)

\* The row the overlay_meta upsert of build writes.
MetaRow(engine_id, track, branch, head, files_indexed, chunks_indexed, deleted, at) ==
    [engine_id |-> engine_id, track |-> track, branch |-> branch, last_commit |-> head,
     files_indexed |-> files_indexed, chunks_indexed |-> chunks_indexed,
     deleted_files |-> deleted, updated_at |-> at]

\* The overlay_meta row a build leaves beside the overlay rows it committed:
\* it counted the files of its rows and its deleted files.
MetaRowFor(rows, deleted) ==
    MetaRow(EngineId, "backend", "feature", 1,
            Max(1, Cardinality(FilenamesIn(rows) \cup deleted)), Cardinality(rows),
            ListOf(deleted), 1)

(***************************************************************************)
(* The parts of the state a specification does not move are at rest: no    *)
(* build has run, the branch equals main, and the server process has just  *)
(* started, its clock far past the epoch its timestamp starts at.          *)
(***************************************************************************)
REFRESH_COOLDOWN_SEC == 30

TicksPerSec == 2

\* time.time() when the server process starts.
StartTime == 2 * REFRESH_COOLDOWN_SEC * TicksPerSec

Unchanged == [diff |-> "same", disk |-> "short"]

NoBuild ==
    [pc |-> "idle", patterns |-> <<>>, changed |-> <<>>, deleted |-> <<>>, rows |-> <<>>,
     i |-> 0, table |-> None, head |-> 0, branch |-> None, connected |-> FALSE,
     engine_id |-> <<>>]

NoTx == [open |-> FALSE, locked |-> FALSE, exists |-> {}, rows |-> {}, meta |-> {}]

NoRead == [kind |-> "none"]

\* No build has ended yet, or one is running.
NotExited == [exit |-> "none"]

\* The store as a connection sees it: the relations, the rows of the engine's
\* overlay table, the rows of overlay_meta.
View(relations, rows, meta) == [exists |-> relations, rows |-> rows, meta |-> meta]

\* The builds a behaviour goes through, and those of a behaviour that builds
\* again on what its builds left.
MaxBuilds == 2

MaxRebuilds == 3

\* What the model remembers of the builds: how many have started, of how many,
\* the store as the last one found it, the last one that exited with a result
\* and the HEAD it was at, the last command that wrote, the HEAD the last one
\* started at, and the result of the one before it.
NoHistory ==
    [builds |-> 0, cap |-> MaxBuilds, before |-> View({}, {}, {}), ok_id |-> 0, ok_head |-> 0,
     last |-> NoCall, at |-> 0, prev |-> NoCall]

BuildAtRest ==
    /\ worktree = [head |-> 1, files |-> [f \in Filenames |-> Unchanged]]
    /\ build = NoBuild
    /\ tx = NoTx
    /\ b_result = NotExited
    /\ history = NoHistory
    /\ reader = NoRead
    /\ cli = NoCall

RefreshAtRest ==
    /\ now = StartTime
    /\ last_refresh_time = 0
    /\ r_result = NoCall
    /\ r_log = <<>>

(***************************************************************************)
(* SpecSearch: the store holds any contents of at most MaxRows rows in the *)
(* tables the configuration names; a table without rows may not exist     *)
(* yet; the overlay table exists exactly when a build has committed it     *)
(* together with its overlay_meta row.  The only step is a search_code     *)
(* call (or a direct call of merge_results on the full row lists).         *)
(***************************************************************************)
InitStoreOf(cfgs, max_rows) ==
    \E cfg \in cfgs :
    \E cells \in SUBSET (TablesOf(cfg) \X Keys) :
    \E missing \in SUBSET (TablesOf(cfg) \ {c[1] : c \in cells}) :
    \E deleted \in SUBSET Filenames :
      /\ Cardinality(cells) <= max_rows
      /\ deleted # {} => OverlayTable \in TablesOf(cfg) \ missing
      /\ \E raw \in [cells -> StoredRaws] :
           /\ config = cfg
           /\ tables = [t \in TableNames |-> {Row(c[1], c[2], raw[c]) : c \in {d \in cells : d[1] = t}}]
           /\ exists = TablesOf(cfg) \ missing
           /\ overlay_meta =
                IF OverlayTable \in TablesOf(cfg) \ missing
                THEN {MetaRowFor({Row(c[1], c[2], raw[c]) : c \in {d \in cells : d[1] = OverlayTable}},
                                 deleted)}
                ELSE {}
           /\ s_args = NoCall
           /\ s_result = NoCall

InitStore(cfgs) == InitStoreOf(cfgs, MaxRows)

InitSearch == InitStore(Configs) /\ BuildAtRest /\ RefreshAtRest

SearchCode(top_k, min_score, ord) ==
    /\ s_args = NoCall
    /\ s_args' = [op |-> "search_code", top_k |-> top_k, min_score |-> min_score,
                   ord |-> ord]
    /\ s_result' = search(config, <<ord, ord>>, top_k, min_score)
    /\ UNCHANGED <<config, storeVars, buildVars, refreshVars>>

NextSearch ==
    \E top_k \in 1..MaxTopK, min_score \in Raws, ord \in TieOrders :
        SearchCode(top_k, min_score, ord)

SpecSearch == InitSearch /\ [][NextSearch]_vars

(***************************************************************************)
(* SpecMerge: merge_results called directly, as its unit tests call it, on *)
(* the complete row lists of the main and the overlay table.               *)
(***************************************************************************)
FullList(t, ord) == MapFilter(OrderByDistance(tables[t], ord), t, 0)

InitMerge ==
    InitStore({CfgEngine}) /\ exists = TablesOf(CfgEngine) /\ BuildAtRest /\ RefreshAtRest

MergeCall(top_k, min_score, ord) ==
    /\ s_args = NoCall
    /\ LET main_results    == FullList(config.main_table, ord)
           overlay_results == FullList(config.overlay_table, ord)
           deleted_files   == get_deleted_files(config.engine_id)
       IN /\ s_args' = [op |-> "merge_results", top_k |-> top_k, min_score |-> min_score,
                        main_results |-> main_results, overlay_results |-> overlay_results,
                        deleted_files |-> deleted_files]
          /\ s_result' = Ok(merge_results(main_results, overlay_results, deleted_files,
                                          top_k, min_score),
                            Merged(main_results, overlay_results, deleted_files))
    /\ UNCHANGED <<config, storeVars, buildVars, refreshVars>>

NextMerge ==
    \E top_k \in 1..MaxTopK, min_score \in Raws, ord \in TieOrders :
        MergeCall(top_k, min_score, ord)

SpecMerge == InitMerge /\ [][NextMerge]_vars

(***************************************************************************)
(* Claims about search_code and merge_results.                             *)
(***************************************************************************)
Searched == s_args.op = "search_code" /\ s_result.status = "ok"

EngineSearched == Searched /\ EngineMode(config)

Rows == s_result.rows

RowsAt(k) == {i \in DOMAIN Rows : KeyOf(Rows[i]) = k}

\* C1: in engine mode, for every key held by both the main and the overlay
\* table, whatever top_k and min_score, a returned row of that key is the
\* overlay's row: it has the overlay row's code and (rounded) score and never
\* is the main table's row.
C1_OverlayWinsForEveryKey ==
    EngineSearched =>
        \A m \in tables[config.main_table], o \in tables[config.overlay_table] :
            KeyOf(m) = KeyOf(o) =>
                \A i \in RowsAt(KeyOf(o)) :
                    /\ Rows[i].src = config.overlay_table
                    /\ Rows[i].code = o.code
                    /\ Rows[i].score = Round4(o.raw)

\* C2: in engine mode, no returned row that came from the main table has a
\* filename listed in overlay_meta.deleted_files of the server's engine.
C2_DeletedFilesSuppressed ==
    EngineSearched /\ config.engine_id # None =>
        \A i \in DOMAIN Rows :
            Rows[i].src = config.main_table =>
                \A m \in overlay_meta :
                    m.engine_id = config.engine_id => Rows[i].filename \notin ItemsOf(m.deleted_files)

\* C2 witness: an engine-mode search over a main table that holds a row of a
\* deleted file which passes min_score, with room left in the result.
C2_Witness ==
    /\ EngineSearched
    /\ Len(Rows) < s_args.top_k
    /\ \E m \in tables[config.main_table] :
          /\ m.filename \in get_deleted_files(config.engine_id)
          /\ m.raw >= s_args.min_score
          /\ Round4(m.raw) >= s_args.min_score
          /\ \A o \in tables[config.overlay_table] : KeyOf(o) # KeyOf(m)

(***************************************************************************)
(* merge_results called directly: its arguments are in s_args.             *)
(***************************************************************************)
MergeCalled == s_args.op = "merge_results"

InList(list, k) == \E i \in DOMAIN list : KeyOf(list[i]) = k

RowOf(list, k) == list[CHOOSE i \in DOMAIN list : KeyOf(list[i]) = k]

NoDuplicateKeys == \A i, j \in DOMAIN Rows : KeyOf(Rows[i]) = KeyOf(Rows[j]) => i = j

\* The candidates that pass min_score all fit under top_k: nothing is cut.
NothingCut ==
    Cardinality({i \in DOMAIN s_result.merged : s_result.merged[i].score >= s_args.min_score})
        <= s_args.top_k

\* C3 as stated: a key in both lists has exactly one output row, the overlay
\* one; a main row of an overlay filename at a location the overlay list lacks
\* is in the output; no two output rows share a key.
C3_AsStated ==
    MergeCalled =>
        /\ \A k \in Keys :
              InList(s_args.main_results, k) /\ InList(s_args.overlay_results, k) =>
                  /\ Cardinality(RowsAt(k)) = 1
                  /\ \A i \in RowsAt(k) : Rows[i] = RowOf(s_args.overlay_results, k)
        /\ \A i \in DOMAIN s_args.main_results :
              LET m == s_args.main_results[i]
              IN (/\ ~InList(s_args.overlay_results, KeyOf(m))
                  /\ \E n \in DOMAIN s_args.overlay_results :
                        s_args.overlay_results[n].filename = m.filename)
                 => \E n \in DOMAIN Rows : Rows[n] = m
        /\ NoDuplicateKeys

\* C3 amended: a key in both lists has at most one output row, and only the
\* overlay one; it has exactly one unless the min_score filter or the top_k cut
\* removes it.  A main row of an overlay filename at a location the overlay
\* list lacks is in the output unless its filename is in deleted_files or the
\* filter or the cut removes it.  No two output rows share a key.
C3_DedupOnKeyOnly ==
    MergeCalled =>
        /\ \A k \in Keys :
              InList(s_args.main_results, k) /\ InList(s_args.overlay_results, k) =>
                  LET o == RowOf(s_args.overlay_results, k)
                  IN /\ Cardinality(RowsAt(k)) <= 1
                     /\ \A i \in RowsAt(k) : Rows[i] = o
                     /\ o.score >= s_args.min_score /\ NothingCut => RowsAt(k) # {}
        /\ \A i \in DOMAIN s_args.main_results :
              LET m == s_args.main_results[i]
              IN (/\ ~InList(s_args.overlay_results, KeyOf(m))
                  /\ \E n \in DOMAIN s_args.overlay_results :
                        s_args.overlay_results[n].filename = m.filename
                  /\ m.filename \notin s_args.deleted_files
                  /\ m.score >= s_args.min_score
                  /\ NothingCut)
                 => \E n \in DOMAIN Rows : Rows[n] = m
        /\ NoDuplicateKeys

\* C3 witness: a merge whose lists share a key whose main row scores higher,
\* and whose main list holds the same filename at another location; both the
\* overlay row and that main row are in the output.
C3_Witness ==
    /\ MergeCalled
    /\ \E k \in Keys :
          /\ InList(s_args.main_results, k) /\ InList(s_args.overlay_results, k)
          /\ RowOf(s_args.main_results, k).score > RowOf(s_args.overlay_results, k).score
          /\ RowsAt(k) # {}
          /\ \E i \in DOMAIN s_args.main_results :
                /\ s_args.main_results[i].filename = k[1]
                /\ ~InList(s_args.overlay_results, KeyOf(s_args.main_results[i]))
                /\ \E n \in DOMAIN Rows : Rows[n] = s_args.main_results[i]

\* C4: in every mode the returned list has at most top_k rows, each with
\* score >= min_score, in non-increasing score order, and leaves out no
\* candidate of the merge that passes min_score and scores strictly higher
\* than a returned row.
C4_TopKSortedFiltered ==
    Searched =>
        /\ Len(Rows) <= s_args.top_k
        /\ \A i \in DOMAIN Rows : Rows[i].score >= s_args.min_score
        /\ \A i, j \in DOMAIN Rows : i < j => Rows[i].score >= Rows[j].score
        /\ \A c \in DOMAIN s_result.merged :
              LET cand == s_result.merged[c]
              IN (/\ cand.score >= s_args.min_score
                  /\ \E i \in DOMAIN Rows : cand.score > Rows[i].score)
                 => \E i \in DOMAIN Rows : Rows[i] = cand

(***************************************************************************)
(* Claims about the dispatcher's search over several main tables.          *)
(***************************************************************************)
DispatcherSearched ==
    /\ s_args.op = "search_code"
    /\ config.main_tables # <<>>
    /\ config.overlay_table = None

\* The main tables whose query succeeds, and the rows each of them returns
\* to the search that was made.
Succeeded == {config.main_tables[i] : i \in DOMAIN config.main_tables} \cap exists

TableResult(t) == query_table(t, s_args.ord, s_args.top_k, s_args.min_score)

ReturnedRows == UNION {ItemsOf(TableResult(t)) : t \in Succeeded}

ReturnedBy(k) == {t \in Succeeded : \E r \in ItemsOf(TableResult(t)) : KeyOf(r) = k}

MaxScore(k) ==
    LET scores == {r.score : r \in {q \in ReturnedRows : KeyOf(q) = k}}
    IN CHOOSE x \in scores : \A y \in scores : y <= x

SharedKeys == {k \in Keys : Cardinality(ReturnedBy(k)) > 1}

\* C15, as stated: in dispatcher mode a key that several main tables return
\* is in the search result exactly once, with the maximum of the scores the
\* tables returned for it.
C15_AsStated ==
    DispatcherSearched =>
        /\ s_result.status = "ok"
        /\ \A k \in SharedKeys :
              /\ Cardinality(RowsAt(k)) = 1
              /\ \A i \in RowsAt(k) : Rows[i].score = MaxScore(k)

\* C15: in dispatcher mode a key that several main tables return is in the
\* search result at most once, and then with the maximum of the scores the
\* tables returned for it; it is left out only when that maximum is below
\* min_score or the result holds top_k rows that score no lower.
C15_SharedKeyOnceAtMost ==
    DispatcherSearched =>
        /\ s_result.status = "ok"
        /\ \A k \in SharedKeys :
              /\ Cardinality(RowsAt(k)) <= 1
              /\ \A i \in RowsAt(k) : Rows[i].score = MaxScore(k)
              /\ RowsAt(k) = {} =>
                    \/ MaxScore(k) < s_args.min_score
                    \/ /\ Len(Rows) = s_args.top_k
                       /\ \A i \in DOMAIN Rows : Rows[i].score >= MaxScore(k)

\* Both tables returned a key with different scores, and it is in the result
\* with the higher one, which the table queried first returned.
C15_Witness ==
    /\ DispatcherSearched
    /\ \E k \in SharedKeys :
          /\ RowsAt(k) # {}
          /\ \E r \in ItemsOf(TableResult(config.main_tables[1])) :
                KeyOf(r) = k /\ r.score = MaxScore(k)
          /\ \E r \in ItemsOf(TableResult(config.main_tables[2])) :
                KeyOf(r) = k /\ r.score < MaxScore(k)

\* The keys the succeeded tables return that pass the score filter.
Passing == {k \in Keys : ReturnedBy(k) # {} /\ MaxScore(k) >= s_args.min_score}

\* C16: in dispatcher mode, whichever of the main tables fail, search returns
\* - it does not raise - the merge of what the other tables returned: their
\* rows, one per key and the best-scoring one, best first, none below
\* min_score, top_k of them at most and no row left out for a worse one; it
\* returns the empty list when every table fails.
C16_FailedTablesContributeNothing ==
    DispatcherSearched =>
        /\ s_result.status = "ok"
        /\ \A i \in DOMAIN Rows :
              /\ Rows[i] \in ReturnedRows
              /\ Rows[i].score = MaxScore(KeyOf(Rows[i]))
              /\ Rows[i].score >= s_args.min_score
        /\ \A i, j \in DOMAIN Rows :
              i < j => KeyOf(Rows[i]) # KeyOf(Rows[j]) /\ Rows[i].score >= Rows[j].score
        /\ Len(Rows) = Min(s_args.top_k, Cardinality(Passing))
        /\ \A k \in Passing :
              RowsAt(k) = {} => \A i \in DOMAIN Rows : Rows[i].score >= MaxScore(k)
        /\ Succeeded = {} => Rows = <<>>

\* The table queried first does not exist, and the search returned the rows
\* of the other one.
C16_Witness ==
    /\ DispatcherSearched
    /\ config.main_tables[1] \notin exists
    /\ Len(Rows) = 2

(***************************************************************************)
(* The overlay indexer, overlay.py.  First its pure helpers.               *)
(***************************************************************************)
\* fnmatch.fnmatch on a POSIX system, for patterns of literal characters,
\* '?' and '*' ('*' also matches '/').
RECURSIVE fnmatch(_, _)
fnmatch(name, pat) ==
    IF pat = <<>> THEN name = <<>>
    ELSE IF Head(pat) = "*"
         THEN fnmatch(name, Tail(pat)) \/ (name # <<>> /\ fnmatch(Tail(name), pat))
         ELSE /\ name # <<>>
              /\ Head(pat) = "?" \/ Head(pat) = Head(name)
              /\ fnmatch(Tail(name), Tail(pat))

filter_by_patterns(files, patterns) ==
    SelectSeq(files, LAMBDA f : \E i \in DOMAIN patterns : fnmatch(f, patterns[i]))

\* CocoIndexConfig.included_patterns_for_track: the track's override when the
\* configuration file sets one, the command line's patterns otherwise.
NoOverride == [set |-> FALSE, patterns |-> <<>>]

included_patterns_for_track(override, default_patterns) ==
    IF override.set THEN override.patterns ELSE default_patterns

IsSpace(c) == c \in {" ", "\n", "\t"}

\* A test that only the empty text passes.
BlankOnlyIfEmpty(text) == text = <<>>

\* not text.strip()
Blank(text) == \A i \in DOMAIN text : IsSpace(text[i])

\* text.find(ch, lo, hi): the lowest offset.
find(text, ch, lo, hi) ==
    LET hits == {i \in lo..(hi - 1) : text[i + 1] = ch}
    IN IF hits = {} THEN -1 ELSE CHOOSE i \in hits : \A j \in hits : i <= j

\* text.rfind(ch, lo, hi), with Python's 0-based offsets; -1 when absent.
rfind(text, ch, lo, hi) ==
    LET hits == {i \in lo..(hi - 1) : text[i + 1] = ch}
    IN IF hits = {} THEN -1 ELSE CHOOSE i \in hits : \A j \in hits : j <= i

\* A location that counts the chunks from one.
LocationFromOne(chunk_idx, start) == ToString(chunk_idx + 1) \o ":" \o ToString(start)

Location(chunk_idx, start) == ToString(chunk_idx) \o ":" \o ToString(start)

\* An iteration that always steps back by the overlap.
IterationKeepsOverlap(text, chunk_size, chunk_overlap, start, chunk_idx, chunks) ==
    LET end == Min(start + chunk_size, Len(text))
        chunk_str == SubSeq(text, start + 1, end)
    IN [start |-> end - chunk_overlap,
        end |-> end,
        chunk_idx |-> chunk_idx + 1,
        chunks |-> Append(chunks, [text |-> chunk_str, location |-> Location(chunk_idx, start)])]

\* One iteration of the while loop of chunk_text: the window that starts at
\* `start`, the chunk it emits unless it is blank, and where the next starts.
Iteration(text, chunk_size, chunk_overlap, start, chunk_idx, chunks) ==
    LET end0 == Min(start + chunk_size, Len(text))
        newline_pos == IF end0 < Len(text)
                       THEN rfind(text, "\n", start + ((chunk_size * 3) \div 4), end0)
                       ELSE -1
        end == IF newline_pos > start THEN newline_pos + 1 ELSE end0
        chunk_str == SubSeq(text, start + 1, end)
        keep == ~Blank(chunk_str)
        next_start == end - chunk_overlap
    IN [start |-> IF next_start <= start THEN end ELSE next_start,
        end |-> end,
        chunk_idx |-> IF keep THEN chunk_idx + 1 ELSE chunk_idx,
        chunks |-> IF keep
                   THEN Append(chunks, [text |-> chunk_str,
                                        location |-> Location(chunk_idx, start)])
                   ELSE chunks]

\* The while loop of chunk_text.
RECURSIVE ChunkLoop(_, _, _, _, _, _)
ChunkLoop(text, chunk_size, chunk_overlap, start, chunk_idx, chunks) ==
    IF start >= Len(text) THEN chunks
    ELSE LET next == Iteration(text, chunk_size, chunk_overlap, start, chunk_idx, chunks)
         IN ChunkLoop(text, chunk_size, chunk_overlap, next.start, next.chunk_idx, next.chunks)

chunk_text(text, chunk_size, chunk_overlap) ==
    IF Blank(text) THEN <<>>
    ELSE IF Len(text) <= chunk_size THEN <<[text |-> text, location |-> "0:0"]>>
    ELSE ChunkLoop(text, chunk_size, chunk_overlap, 0, 0, <<>>)

CHUNK_SIZE == 1500

CHUNK_OVERLAP == 300

\* build creates the IVFFlat index when it has at least this many rows.
IndexMinRows == 10

(***************************************************************************)
(* The worktree.  Per file: its status in `git diff main...HEAD` (same,    *)
(* modified - which stands for added too - or deleted) and what is on disk *)
(* under its path.  A file the branch modified may be missing on disk, and *)
(* a file the branch deleted may be on disk again (recreated, not yet      *)
(* committed).  HEAD is the number of the branch's last commit.            *)
(***************************************************************************)
\* A file of 80-character lines.
Lines(n) == [i \in 1..n |-> IF i % 80 = 0 THEN "\n" ELSE "x"]

\* What is on disk: nothing, a short file, or a file of 10 chunks.
Contents == {"missing", "short", "huge"}

TextOf(content) ==
    CASE content = "short" -> <<"x", "\n">>
      [] content = "huge"  -> Lines(10400)
      [] OTHER             -> <<>>

\* chunk_text(content) as build calls it, with the default sizes.
ChunksOf == [content \in Contents |-> chunk_text(TextOf(content), CHUNK_SIZE, CHUNK_OVERLAP)]

FileStatesOf(f) ==
    IF f = "a.go"
    THEN {Unchanged,
          [diff |-> "modified", disk |-> "short"],
          [diff |-> "modified", disk |-> "huge"], [diff |-> "modified", disk |-> "missing"],
          [diff |-> "deleted", disk |-> "missing"], [diff |-> "deleted", disk |-> "short"]}
    ELSE {Unchanged,
          [diff |-> "modified", disk |-> "short"], [diff |-> "deleted", disk |-> "missing"]}

FileStates == {fs \in [Filenames -> UNION {FileStatesOf(f) : f \in Filenames}] :
                  \A f \in Filenames : fs[f] \in FileStatesOf(f)}

\* git diff --name-only main...HEAD: every path whose status is not `same`,
\* the deleted ones included.
get_changed_files(wt) == SelectSeq(FileSeq, LAMBDA f : wt.files[Join(f)].diff # "same")

\* A diff without the filter for deletions.
DiffWithoutFilter(wt) == SelectSeq(FileSeq, LAMBDA f : wt.files[Join(f)].diff # "same")

\* git diff --name-only --diff-filter=D main...HEAD (overlay.get_deleted_files)
git_deleted_files(wt) == SelectSeq(FileSeq, LAMBDA f : wt.files[Join(f)].diff = "deleted")

\* git rev-parse HEAD
get_head_commit(wt) == wt.head

\* git rev-parse --abbrev-ref HEAD
get_current_branch(wt) == "feature"

\* The similarity of the search query to an embedded text: a fixed function
\* of the text.
Similarity(text) == Len(text) % (MaxRaw + 1)

\* The rows of one file that was read: one per chunk.  The code column is the
\* chunk's text, written here as the content it is cut from and its extent.
ChunkRows ==
    [content \in Contents |->
        [i \in DOMAIN ChunksOf[content] |->
            LET chunk == ChunksOf[content][i]
            IN [location |-> chunk.location,
                code |-> content \o "[" \o chunk.location \o "+"
                                 \o ToString(Len(chunk.text)) \o "]",
                raw |-> Similarity(chunk.text)]]]

FileRows(filepath, content) ==
    [i \in DOMAIN ChunkRows[content] |->
        [filename |-> Join(filepath), location |-> ChunkRows[content][i].location,
         code |-> ChunkRows[content][i].code, raw |-> ChunkRows[content][i].raw]]

\* Step 4 of build: read, chunk and embed the changed files; a path that is
\* not on disk is skipped.
RECURSIVE ReadRows(_, _)
ReadRows(changed, wt) ==
    IF changed = <<>> THEN <<>>
    ELSE LET content == wt.files[Join(Head(changed))].disk
         IN (IF content = "missing" THEN <<>> ELSE FileRows(Head(changed), content))
                \o ReadRows(Tail(changed), wt)

Names(files) == [i \in DOMAIN files |-> Join(files[i])]

\* A build that never takes the early return.
NoChangesNeverTrue(changed, deleted) == FALSE

\* `if not changed and not deleted`
NoChanges(changed, deleted) == changed = <<>> /\ deleted = <<>>

(***************************************************************************)
(* The store as the build's connection uses it.  psycopg2 opens a          *)
(* transaction with the first statement; what the statements write is      *)
(* private to it until conn.commit(), and conn.close() without a commit    *)
(* discards it.  TRUNCATE and what follows hold the table's exclusive      *)
(* lock: a reader that arrives meanwhile waits for the transaction's end.  *)
(***************************************************************************)
Committed == View(exists, tables[OverlayTable], overlay_meta)

TxView == View(tx.exists, tx.rows, tx.meta)

TxOf(v, locked) ==
    [open |-> TRUE, locked |-> locked, exists |-> v.exists, rows |-> v.rows, meta |-> v.meta]

Install(v) ==
    /\ exists' = v.exists
    /\ tables' = [tables EXCEPT ![OverlayTable] = v.rows]
    /\ overlay_meta' = v.meta

\* A connection in autocommit mode.
AutocommitOn == TRUE

\* psycopg2.connect gives a connection with autocommit off.
Autocommit == FALSE

\* One statement of the build's connection leaves the view v.
Execute(v, locks) ==
    /\ tx' = TxOf(v, ~Autocommit /\ (tx.locked \/ locks))
    /\ IF Autocommit THEN Install(v) ELSE UNCHANGED storeVars

\* Closing a connection that keeps what its open transaction wrote.
RollbackKeeps(committed, view) == view

\* conn.close() with an open transaction: the store stays as committed.
Rollback(committed, view) == committed

Saw(v) == [kind |-> "saw", exists |-> OverlayTable \in v.exists, rows |-> v.rows]

\* The end of the transaction releases a waiting reader, which then reads.
Wake(v) == reader' = IF reader.kind = "blocked" THEN Saw(v) ELSE reader

(***************************************************************************)
(* build, step by step.  BuildStart is everything up to the connection:    *)
(* the two git diffs, the pattern filter, the early return, reading and    *)
(* chunking the files, the table name.  Then one action per statement of   *)
(* the transaction.  The worktree does not change while a build runs.      *)
(***************************************************************************)
PatternLists == { << <<"*">> >>, << <<"a", ".", "*">>, <<"*", ".", "p", "y">> >> }

Running == build.pc # "idle"

Exited(out) == [exit |-> "ok", out |-> out]

Failed(step) == [exit |-> "error", step |-> step]

\* The counts the build before the one that starts printed, when that build
\* exited with a result and ran for the same engine with the same patterns at
\* the same HEAD.
Previous(engine_id, patterns) ==
    IF /\ b_result.exit = "ok"
       /\ build.engine_id = engine_id
       /\ build.patterns = patterns
       /\ history.at = worktree.head
    THEN [files_indexed |-> b_result.out.files_indexed,
          chunks_indexed |-> b_result.out.chunks_indexed]
    ELSE NoCall

Started(prev) ==
    [history EXCEPT !.builds = @ + 1, !.before = Committed, !.at = worktree.head, !.prev = prev]

BuildStart(engine_id, file_patterns) ==
    /\ ~Running
    /\ history.builds < history.cap
    /\ LET patterns == included_patterns_for_track(NoOverride, file_patterns)
           changed  == filter_by_patterns(get_changed_files(worktree), patterns)
           deleted  == filter_by_patterns(git_deleted_files(worktree), patterns)
           started  == [NoBuild EXCEPT !.patterns = patterns, !.changed = Names(changed),
                                       !.deleted = Names(deleted),
                                       !.engine_id = engine_id]
           table    == overlay_table_name(engine_id, DEFAULT_OVERLAY_TABLE_PREFIX)
       IN IF NoChanges(changed, deleted)
          THEN /\ build' = started
               /\ b_result' = Exited([files_indexed |-> 0, chunks_indexed |-> 0,
                                      status |-> "no_changes"])
               /\ history' = [Started(Previous(engine_id, patterns)) EXCEPT
                                 !.ok_id = history.builds + 1, !.ok_head = worktree.head]
          ELSE IF table = ValueError
          THEN /\ build' = started
               /\ b_result' = Failed("engine_id")
               /\ history' = Started(Previous(engine_id, patterns))
          ELSE /\ build' = [started EXCEPT
                              !.pc = "connect",
                              !.rows = ReadRows(changed, worktree),
                              !.table = table]
               /\ b_result' = NotExited
               /\ history' = Started(Previous(engine_id, patterns))
    /\ tx' = NoTx
    /\ reader' = NoRead
    /\ UNCHANGED <<storeVars, worktree>>
    /\ UNCHANGED <<searchVars, refreshVars, cli>>

\* git diff exits nonzero, or the embedding model does not load: build raises
\* before it has a connection.
BuildFailsEarly ==
    /\ ~Running
    /\ history.builds < history.cap
    /\ build' = NoBuild
    /\ b_result' = Failed("git")
    /\ history' = Started(NoCall)
    /\ tx' = NoTx
    /\ reader' = NoRead
    /\ UNCHANGED <<storeVars, worktree>>
    /\ UNCHANGED <<searchVars, refreshVars, cli>>

Connect ==
    /\ build.pc = "connect"
    /\ build' = [build EXCEPT !.pc = "create", !.connected = TRUE]
    /\ tx' = TxOf(Committed, FALSE)
    /\ UNCHANGED <<storeVars, worktree, b_result, history, reader>>
    /\ UNCHANGED <<searchVars, refreshVars, cli>>

\* psycopg2.connect raises: it is called before the try block.
ConnectFails ==
    /\ build.pc = "connect"
    /\ build' = [build EXCEPT !.pc = "idle"]
    /\ b_result' = Failed("connect")
    /\ UNCHANGED <<storeVars, worktree, tx, history, reader>>
    /\ UNCHANGED <<searchVars, refreshVars, cli>>

\* CREATE TABLE IF NOT EXISTS
CreateTable ==
    /\ build.pc = "create"
    /\ Execute(View(tx.exists \cup {build.table},
                    IF build.table \in tx.exists THEN tx.rows ELSE {}, tx.meta), FALSE)
    /\ build' = [build EXCEPT !.pc = "truncate"]
    /\ UNCHANGED <<worktree, b_result, history, reader>>
    /\ UNCHANGED <<searchVars, refreshVars, cli>>

\* TRUNCATE TABLE
Truncate ==
    /\ build.pc = "truncate"
    /\ Execute(View(tx.exists, {}, tx.meta), TRUE)
    /\ build' = [build EXCEPT !.pc = IF build.rows = <<>> THEN "index" ELSE "insert", !.i = 1]
    /\ UNCHANGED <<worktree, b_result, history, reader>>
    /\ UNCHANGED <<searchVars, refreshVars, cli>>

\* One INSERT of the loop; the primary key (filename, location) admits it.
Insert ==
    /\ build.pc = "insert"
    /\ \A r \in tx.rows : KeyOf(r) # KeyOf(build.rows[build.i])
    /\ Execute(View(tx.exists, tx.rows \cup {build.rows[build.i]}, tx.meta), TRUE)
    /\ build' = [build EXCEPT !.pc = IF build.i = Len(build.rows) THEN "index" ELSE "insert",
                              !.i = @ + 1]
    /\ UNCHANGED <<worktree, b_result, history, reader>>
    /\ UNCHANGED <<searchVars, refreshVars, cli>>

\* CREATE INDEX IF NOT EXISTS, when there are enough rows.
CreateIndex ==
    /\ build.pc = "index"
    /\ IF Len(build.rows) >= IndexMinRows
       THEN Execute(View(tx.exists \cup {IndexName(build.table)}, tx.rows, tx.meta), TRUE)
       ELSE UNCHANGED <<tx, storeVars>>
    /\ build' = [build EXCEPT !.pc = "head"]
    /\ UNCHANGED <<worktree, b_result, history, reader>>
    /\ UNCHANGED <<searchVars, refreshVars, cli>>

GetHead ==
    /\ build.pc = "head"
    /\ build' = [build EXCEPT !.pc = "upsert", !.head = get_head_commit(worktree),
                              !.branch = get_current_branch(worktree)]
    /\ UNCHANGED <<storeVars, worktree, tx, b_result, history, reader>>
    /\ UNCHANGED <<searchVars, refreshVars, cli>>

\* INSERT INTO overlay_meta ... ON CONFLICT (engine_id) DO UPDATE.  NOW() is
\* the time of the build's transaction: the number of the build.
UpsertMeta ==
    /\ build.pc = "upsert"
    /\ LET row == MetaRow(Join(build.engine_id), "backend", build.branch, build.head,
                          Len(build.changed), Len(build.rows), build.deleted,
                          history.builds)
       IN Execute(View(tx.exists, tx.rows,
                       {m \in tx.meta : m.engine_id # row.engine_id} \cup {row}), tx.locked)
    /\ build' = [build EXCEPT !.pc = "commit"]
    /\ UNCHANGED <<worktree, b_result, history, reader>>
    /\ UNCHANGED <<searchVars, refreshVars, cli>>

\* conn.commit(), conn.close(), and the result is printed.
Commit ==
    /\ build.pc = "commit"
    /\ Install(TxView)
    /\ Wake(TxView)
    /\ tx' = NoTx
    /\ build' = [build EXCEPT !.pc = "idle"]
    /\ LET result == [files_indexed |-> Len(build.changed),
                      chunks_indexed |-> Len(build.rows),
                      deleted_files |-> Len(build.deleted), table |-> build.table]
       IN /\ b_result' = Exited(result)
          /\ history' = [history EXCEPT !.ok_id = history.builds, !.ok_head = worktree.head,
                                        !.last = [op |-> "build", out |-> result]]
    /\ UNCHANGED worktree
    /\ UNCHANGED <<searchVars, refreshVars, cli>>

\* A statement, git rev-parse or the commit raises: the finally clause closes
\* the connection and the error leaves build.
FailSteps == {"create", "truncate", "insert", "index", "head", "upsert", "commit"}

StepFails ==
    /\ build.pc \in FailSteps
    /\ build.pc = "index" => Len(build.rows) >= IndexMinRows
    /\ Install(Rollback(Committed, TxView))
    /\ Wake(Rollback(Committed, TxView))
    /\ tx' = NoTx
    /\ build' = [build EXCEPT !.pc = "idle"]
    /\ b_result' = Failed(build.pc)
    /\ UNCHANGED <<worktree, history>>
    /\ UNCHANGED <<searchVars, refreshVars, cli>>

\* A reader of the overlay table while the build runs (one per build).
ReadOverlay ==
    /\ Running
    /\ reader.kind = "none"
    /\ reader' = IF tx.locked THEN [kind |-> "blocked"] ELSE Saw(Committed)
    /\ UNCHANGED <<storeVars, worktree, build, tx, b_result, history>>
    /\ UNCHANGED <<searchVars, refreshVars, cli>>

\* The engine commits to its branch: any status of the files may result.
\* Commits that no build separates count as one.
GitCommit(files) ==
    /\ ~Running
    /\ worktree.head <= history.builds
    /\ history.builds < history.cap
    /\ worktree' = [head |-> worktree.head + 1, files |-> files]
    /\ UNCHANGED <<storeVars, build, tx, b_result, history, reader>>
    /\ UNCHANGED <<searchVars, refreshVars, cli>>

InitBuild ==
    /\ config = CfgEngine
    /\ tables = [t \in TableNames |-> {}]
    /\ exists = {MainTable}
    /\ overlay_meta = {}
    /\ s_args = NoCall
    /\ s_result = NoCall
    /\ \E files \in FileStates : worktree = [head |-> 1, files |-> files]
    /\ build = NoBuild
    /\ tx = NoTx
    /\ b_result = NotExited
    /\ history = NoHistory
    /\ reader = NoRead
    /\ cli = NoCall
    /\ RefreshAtRest

NextBuild ==
    \/ \E file_patterns \in PatternLists : BuildStart(EngineIdChars, file_patterns)
    \/ BuildFailsEarly
    \/ Connect
    \/ ConnectFails
    \/ CreateTable
    \/ Truncate
    \/ Insert
    \/ CreateIndex
    \/ GetHead
    \/ UpsertMeta
    \/ Commit
    \/ StepFails
    \/ ReadOverlay
    \/ \E files \in FileStates : GitCommit(files)

SpecBuild == InitBuild /\ [][NextBuild]_vars

(***************************************************************************)
(* Claims about build.                                                     *)
(***************************************************************************)
\* The overlay table as it was committed when the running (or last) build
\* started, and as that build computed it.
OldRows == history.before.rows

NewRows == ItemsOf(build.rows)

Wrote == b_result.exit = "ok" /\ "table" \in DOMAIN b_result.out

ReportedNoChanges == b_result.exit = "ok" /\ "status" \in DOMAIN b_result.out

\* C6: a reader of the overlay table that runs while a build of the engine
\* runs sees the complete rows of the previously committed build (or no table,
\* when none was committed) or the complete rows of the new build, never a
\* truncated or partly inserted table; and once the build has committed, the
\* table holds exactly the rows that build computed.
C6_ReaderSeesOldOrNewRows ==
    /\ reader.kind = "saw" =>
          \/ /\ reader.exists = (OverlayTable \in history.before.exists)
             /\ reader.rows = OldRows
          \/ /\ reader.exists
             /\ reader.rows = NewRows
    /\ Wrote => OverlayTable \in exists /\ tables[OverlayTable] = NewRows

\* A reader waited for a build that replaced one non-empty row set by
\* another, and saw the new one.
C6_Witness ==
    /\ Wrote
    /\ reader.kind = "saw"
    /\ reader.rows = NewRows
    /\ OldRows # {}
    /\ NewRows \ OldRows # {}
    /\ OldRows \ NewRows # {}

\* C7: when a step of build fails after the connection was opened (CREATE
\* TABLE, TRUNCATE, an INSERT, CREATE INDEX, reading HEAD, the upsert, the
\* commit), build ends with the error and the store - the overlay table, its
\* rows, the overlay_meta rows - is as it was when the build started.
C7_FailedBuildChangesNothing ==
    (b_result.exit = "error" /\ b_result.step \in FailSteps) =>
        /\ ~Running
        /\ build.connected
        /\ ~tx.open
        /\ Committed = history.before

\* Every step fails in some build that had truncated or written by then, over
\* a committed overlay with rows and a metadata row.
C7_Witness ==
    /\ b_result.exit = "error"
    /\ b_result.step = "upsert"
    /\ OldRows # {}
    /\ history.before.meta # {}
    /\ NewRows # OldRows

\* C8: a build whose changed list and deleted list are both empty after the
\* pattern filter ends at once with status no_changes, files_indexed = 0 and
\* chunks_indexed = 0; it opens no connection and the store is as before.
C8_NoChangesTouchesNothing ==
    (/\ history.builds > 0
     /\ build.changed = <<>>
     /\ build.deleted = <<>>
     /\ ~(b_result.exit = "error" /\ b_result.step = "git")) =>
        /\ ~Running
        /\ b_result = Exited([files_indexed |-> 0, chunks_indexed |-> 0,
                              status |-> "no_changes"])
        /\ ~build.connected
        /\ ~tx.open
        /\ Committed = history.before

\* The branch differs from main, but in no file the patterns select, and an
\* earlier build has left rows and a metadata row.
C8_Witness ==
    /\ ReportedNoChanges
    /\ get_changed_files(worktree) # <<>>
    /\ OldRows # {}
    /\ overlay_meta # {}

\* C9: no row of the engine's overlay table has a filename that the engine's
\* overlay_meta row lists in deleted_files.
C9_NoRowOfADeletedFile ==
    \A r \in tables[OverlayTable] : r.filename \notin get_deleted_files(EngineId)

\* C10: once a build has exited successfully, a metadata row of the engine
\* has the HEAD of the most recent successful build as last_commit and that
\* build's time as updated_at.
C10_MetaRowIsOfLastSuccessfulBuild ==
    history.ok_id > 0 =>
        \A m \in overlay_meta :
            m.engine_id = EngineId =>
                /\ m.last_commit = history.ok_head
                /\ m.updated_at = history.ok_id

\* The worktree is still as the last build that wrote found it.
WorktreeAsBuilt == Wrote /\ worktree.head = history.ok_head

\* The index in FileSeq of the paths the build's patterns select.
Selected == {i \in DOMAIN FileSeq :
                \E j \in DOMAIN build.patterns : fnmatch(FileSeq[i], build.patterns[j])}

\* The selected paths the branch deleted / the selected paths of the diff
\* that are on disk, so that build read them.
DeletedSelected == {i \in Selected : worktree.files[Join(FileSeq[i])].diff = "deleted"}

WereRead == {i \in Selected : /\ worktree.files[Join(FileSeq[i])].diff # "same"
                              /\ worktree.files[Join(FileSeq[i])].disk # "missing"}

RECURSIVE ChunksProduced(_)
ChunksProduced(is) ==
    IF is = {} THEN 0
    ELSE LET i == CHOOSE x \in is : TRUE
         IN Len(ChunksOf[worktree.files[Join(FileSeq[i])].disk]) + ChunksProduced(is \ {i})

\* C11: after a build that wrote, the engine's metadata row has as many
\* deleted_files as deleted files passed the pattern filter, and its
\* chunks_indexed is the number of chunks cut from the files that were read
\* and the number of rows of the engine's overlay table.
C11_MetaRowCounts ==
    WorktreeAsBuilt =>
        /\ \E m \in overlay_meta : m.engine_id = EngineId
        /\ \A m \in overlay_meta :
              m.engine_id = EngineId =>
                 /\ Len(m.deleted_files) = Cardinality(DeletedSelected)
                 /\ m.chunks_indexed = ChunksProduced(WereRead)
                 /\ m.chunks_indexed = Cardinality(tables[OverlayTable])

\* A build wrote the chunks of a long file and listed a deleted file, over
\* the rows and the metadata row of an earlier build.
C11_Witness ==
    /\ WorktreeAsBuilt
    /\ Cardinality(DeletedSelected) = 1
    /\ Cardinality(tables[OverlayTable]) > 1
    /\ history.before.meta # {}

\* C12: the files_indexed a build that wrote reports, in its printed result
\* and in the metadata row, is the number of changed files it read; a changed
\* file that is not on disk is skipped and not counted.
C12_FilesIndexedCountsReadFiles ==
    WorktreeAsBuilt =>
        /\ b_result.out.files_indexed = Cardinality(WereRead)
        /\ \A m \in overlay_meta :
              m.engine_id = EngineId => m.files_indexed = Cardinality(WereRead)

(***************************************************************************)
(* cleanup and status, the other two subcommands of the overlay command    *)
(* (cmd/ry/cocoindex_overlay.py), run between builds of the engine.  Each  *)
(* is one transaction of its own connection.  The created_at column, which *)
(* the column default sets and status only prints, is left out.            *)
(***************************************************************************)
\* What a command leaves: the engine id it was given, the store and the last
\* writing command as it found them, whether psycopg2.connect was called, and
\* how it ended.
Command(op, engine_id, connected, outcome) ==
    [op |-> op, engine_id |-> engine_id, before |-> Committed, since |-> history.last,
     connected |-> connected, outcome |-> outcome]

\* A DROP TABLE without IF EXISTS.
DropRaisesIfMissing(relations, table) == table \notin relations

\* DROP TABLE IF EXISTS does not raise when there is no such table.
DropRaises(relations, table) == FALSE

\* The table goes, and with it its rows and its index.
DropTable(v, table) == View(v.exists \ {table, IndexName(table)}, {}, v.meta)

\* A DELETE whose WHERE clause matches no row.
DeleteNoRow(meta, engine_id) == meta

\* DELETE FROM overlay_meta WHERE engine_id = %s
DeleteMeta(meta, engine_id) == {m \in meta : m.engine_id # engine_id}

cleanup(engine_id) ==
    /\ ~Running
    /\ LET table == overlay_table_name(engine_id, DEFAULT_OVERLAY_TABLE_PREFIX)
           dropped == DropTable(Committed, table)
       IN IF table = ValueError
          THEN /\ cli' = Command("cleanup", engine_id, FALSE, Failed("engine_id"))
               /\ UNCHANGED <<storeVars, history>>
          ELSE IF DropRaises(exists, table)
          THEN /\ cli' = Command("cleanup", engine_id, TRUE, Failed("drop"))
               /\ UNCHANGED <<storeVars, history>>
          ELSE /\ Install(View(dropped.exists, dropped.rows,
                               DeleteMeta(dropped.meta, Join(engine_id))))
               /\ cli' = Command("cleanup", engine_id, TRUE,
                                 Exited([engine_id |-> Join(engine_id), table |-> table,
                                         status |-> "cleaned"]))
               /\ history' = [history EXCEPT !.last = [op |-> "cleanup"]]
    /\ UNCHANGED <<worktree, build, tx, b_result, reader>>
    /\ UNCHANGED <<searchVars, refreshVars>>

\* str(timestamp)
Str(at) == "t" \o ToString(at)

status(engine_id) ==
    /\ ~Running
    /\ LET found == {m \in overlay_meta : m.engine_id = Join(engine_id)}
       IN IF found = {}
          THEN cli' = Command("status", engine_id, TRUE,
                              Exited([engine_id |-> Join(engine_id), status |-> "not_found"]))
          ELSE LET row == CHOOSE m \in found : TRUE
               IN cli' = Command("status", engine_id, TRUE, Exited(
                      [engine_id |-> row.engine_id, track |-> row.track,
                       branch |-> row.branch, last_commit |-> row.last_commit,
                       files_indexed |-> row.files_indexed,
                       chunks_indexed |-> row.chunks_indexed,
                       deleted_files |-> row.deleted_files,
                       updated_at |-> Str(row.updated_at), status |-> "ok"]))
    /\ UNCHANGED <<storeVars, worktree, build, tx, b_result, history, reader>>
    /\ UNCHANGED <<searchVars, refreshVars>>

\* psycopg2 raises in cleanup or in status: connect itself (no connection is
\* opened), or a statement (the finally clause closes the connection).  Nothing
\* is committed and the error leaves the command.  cleanup gets as far as the
\* database only with a table name.
CommandFails(op, engine_id, connected) ==
    /\ ~Running
    /\ op = "cleanup" => SafeIdMatch(engine_id)
    /\ cli' = Command(op, engine_id, connected, Failed("database"))
    /\ UNCHANGED <<storeVars, worktree, build, tx, b_result, history, reader>>
    /\ UNCHANGED <<searchVars, refreshVars>>

\* The commands run one after another on a worktree that stays as it is.
NextLifecycle ==
    \/ \E file_patterns \in PatternLists : BuildStart(EngineIdChars, file_patterns)
    \/ BuildFailsEarly
    \/ Connect
    \/ ConnectFails
    \/ CreateTable
    \/ Truncate
    \/ Insert
    \/ CreateIndex
    \/ GetHead
    \/ UpsertMeta
    \/ Commit
    \/ StepFails
    \/ cleanup(EngineIdChars)
    \/ status(EngineIdChars)
    \/ \E op \in {"cleanup", "status"}, connected \in BOOLEAN :
          CommandFails(op, EngineIdChars, connected)

SpecLifecycle == InitBuild /\ [][NextLifecycle]_vars

(***************************************************************************)
(* Claims about cleanup and status.                                        *)
(***************************************************************************)
HasRow(meta) == \E m \in meta : m.engine_id = EngineId

\* The last command was a cleanup, and no build has written since the last
\* cleanup that ended well.
CleanupWasLast == cli.op = "cleanup" /\ history.last.op = "cleanup"

\* The cleanup found neither the engine's table nor its metadata row.
FoundNothing == OverlayTable \notin cli.before.exists /\ ~HasRow(cli.before.meta)

\* C13: after a cleanup of the engine its overlay table does not exist and
\* overlay_meta has no row of it; a cleanup that finds neither a table nor a
\* row fails for no lack of them, ends with status cleaned and leaves the
\* store as it found it - so a second cleanup leaves what the first one left.
C13_CleanupRemovesAndRepeats ==
    CleanupWasLast =>
        /\ cli.outcome.exit = "ok" =>
              /\ cli.outcome.out.status = "cleaned"
              /\ OverlayTable \notin exists
              /\ ~HasRow(overlay_meta)
              /\ FoundNothing => Committed = cli.before
        /\ FoundNothing => cli.outcome.exit = "ok" \/ cli.outcome.step = "database"

\* A build wrote rows, a cleanup removed them, and a second cleanup ended
\* well too.
C13_Witness ==
    /\ Wrote
    /\ NewRows # {}
    /\ CleanupWasLast
    /\ cli.since.op = "cleanup"
    /\ cli.outcome.exit = "ok"
    /\ FoundNothing

\* C14: a status command answers ok or not_found, and ok exactly when
\* overlay_meta has a row of the engine: not_found as long as no build has
\* written, ok with the counts of the last build that wrote when no cleanup
\* came after it, not_found when the last writing command was a cleanup.
C14_StatusFollowsMetadataRow ==
    (cli.op = "status" /\ cli.outcome.exit = "ok") =>
        LET out == cli.outcome.out
        IN /\ out.status \in {"ok", "not_found"}
           /\ out.status = "ok" <=> HasRow(cli.before.meta)
           /\ cli.since.op \in {"none", "cleanup"} => out.status = "not_found"
           /\ cli.since.op = "build" =>
                 /\ out.status = "ok"
                 /\ out.files_indexed = cli.since.out.files_indexed
                 /\ out.chunks_indexed = cli.since.out.chunks_indexed
                 /\ Len(out.deleted_files) = cli.since.out.deleted_files

\* After a build that wrote and a cleanup, status answers not_found.
C14_Witness ==
    /\ Wrote
    /\ cli.op = "status"
    /\ cli.outcome.exit = "ok"
    /\ cli.since.op = "cleanup"
    /\ cli.outcome.out.status = "not_found"

(***************************************************************************)
(* overlay_refresh.  Time is counted in ticks of 1/TicksPerSec seconds.    *)
(* The build subprocess is the build above run as a process of its own;    *)
(* what refresh_overlay takes from it is its exit status, its output and   *)
(* its running time, which are inputs here.                                *)
(***************************************************************************)
MaxSeconds == 32

SUBPROCESS_TIMEOUT_SEC == 60

Cooldown == REFRESH_COOLDOWN_SEC * TicksPerSec

\* How long the subprocess may need: no time, a tick, a second, as long as
\* the cooldown, or more than the timeout of subprocess.run.
Durations == {0, 1, TicksPerSec, Cooldown, SUBPROCESS_TIMEOUT_SEC * TicksPerSec + 1}

\* A subprocess.run without a timeout.
ExpiresNever(d) == FALSE

\* subprocess.run(..., timeout=60) kills a subprocess that has not ended
\* after 60 seconds and raises TimeoutExpired.
Expires(d) == d > SUBPROCESS_TIMEOUT_SEC * TicksPerSec

\* The time the call of subprocess.run takes.
Elapsed(d) == IF Expires(d) THEN SUBPROCESS_TIMEOUT_SEC * TicksPerSec ELSE d

\* A line of the subprocess's standard output: the JSON text of a dict, a
\* progress message, or nothing but whitespace.
JsonLine(dict) == [kind |-> "json", value |-> dict]

TextLine == [kind |-> "text", value |-> [text |-> "indexing a.go"]]

BlankLine == [kind |-> "blank", value |-> [text |-> ""]]

Report == [files_indexed |-> 1, chunks_indexed |-> 3]

\* What the subprocess may write: the report alone, with or without the
\* newline print() ends it with, progress lines above the report, the
\* no_changes answer, a message that is no JSON, nothing.
Stdouts ==
    {<<JsonLine(Report)>>,
     <<JsonLine(Report), BlankLine>>,
     <<TextLine, JsonLine(Report)>>,
     <<TextLine, TextLine, JsonLine(Report), BlankLine>>,
     <<JsonLine([status |-> "no_changes"])>>,
     <<TextLine>>,
     <<>>}

\* What the subprocess may leave: exit status and standard output.
Completions ==
    {[returncode |-> 0, stdout |-> out] : out \in Stdouts}
        \cup {[returncode |-> 1, stdout |-> <<TextLine>>]}

\* str.strip(), on lines: the blank lines at either end go.
RECURSIVE strip(_)
strip(lines) ==
    IF lines = <<>> THEN <<>>
    ELSE IF Head(lines).kind = "blank" THEN strip(Tail(lines))
    ELSE IF lines[Len(lines)].kind = "blank" THEN strip(SubSeq(lines, 1, Len(lines) - 1))
    ELSE lines

JSONDecodeError == [kind |-> "JSONDecodeError", value |-> <<>>]

\* json.loads(text): the text is one JSON document and nothing else.
json_loads(text) ==
    IF Len(text) = 1 /\ text[1].kind = "json" THEN text[1] ELSE JSONDecodeError

\* The standard output is the JSON report.
Parses(done) == json_loads(strip(done.stdout)).kind = "json"

\* dict.get(key, 0)
Get(dict, key) == IF key \in DOMAIN dict THEN dict[key] ELSE 0

\* int(x) of a non-negative number of ticks, in seconds / in milliseconds.
IntSeconds(ticks) == ticks \div TicksPerSec

IntMillis(ticks) == (ticks * 1000) \div TicksPerSec

\* The most recent call that spawned the subprocess, or -1.
LastSpawn == IF r_log = <<>> THEN -1 ELSE r_log[Len(r_log)]

\* What is left of a subprocess that subprocess.run killed.
Killed == [exit |-> "killed"]

\* When the subprocess of the last accepted call ended, or -1.
LastEnd ==
    IF r_result.op = "none" THEN -1
    ELSE IF r_result.spawned THEN r_result.at + r_result.ran
    ELSE r_result.prev_end

\* What a call leaves: when it was made, what it found - the last acceptance,
\* the end of that call's subprocess, the timestamp -, whether it spawned the
\* subprocess, what that left, how long it needed and ran, and what the call
\* returned.  An
\* exception that leaves refresh_overlay leaves the tool function too and is
\* the tool's answer: the result then has the exception's name as status.
Returned(result, done, needs, ran) ==
    [op |-> "overlay_refresh", at |-> now, prev |-> LastSpawn, prev_end |-> LastEnd,
     stamp |-> last_refresh_time, spawned |-> done # NotExited, done |-> done,
     needs |-> needs, ran |-> ran, result |-> result]

\* A limiter that never opens its window.
AcceptsAlways(t, last) == TRUE

\* The call is accepted unless `now - _last_refresh_time < REFRESH_COOLDOWN_SEC`.
Accepts(t, last) == ~(t - last < Cooldown)

MissingConfig(cfg) == cfg.engine_id = None \/ cfg.worktree = None \/ cfg.track = None

\* A timestamp taken when the subprocess has ended.
StampAtReturn(accepted, returned) == returned

\* `_last_refresh_time = now`, before the subprocess is started.
Stamp(accepted, returned) == accepted

\* An early return that takes the timestamp.
RejectedStamps(result) ==
    /\ r_result' = Returned(result, NotExited, 0, 0)
    /\ last_refresh_time' = now
    /\ UNCHANGED <<now, r_log>>

\* The two early returns of refresh_overlay.
Rejected(result) ==
    /\ r_result' = Returned(result, NotExited, 0, 0)
    /\ UNCHANGED <<now, last_refresh_time, r_log>>

\* The subprocess has run: the timestamp is taken, the clock has moved on,
\* and the call returns what it makes of the subprocess - or raises.
Spawned(d, done) ==
    /\ last_refresh_time' = Stamp(now, now + Elapsed(d))
    /\ r_log' = Append(r_log, now)
    /\ now' = now + Elapsed(d)
    /\ r_result' =
         IF Expires(d)
         THEN Returned([status |-> "TimeoutExpired"], Killed, d, Elapsed(d))
         ELSE IF done.returncode # 0
         THEN Returned([status |-> "error", duration_ms |-> IntMillis(Elapsed(d))],
                       done, d, Elapsed(d))
         ELSE LET loaded == json_loads(strip(done.stdout))
                  output == IF loaded.kind = "json" THEN loaded.value ELSE <<>>
              IN Returned([status |-> "ok",
                           files_indexed |-> Get(output, "files_indexed"),
                           chunks_indexed |-> Get(output, "chunks_indexed"),
                           duration_ms |-> IntMillis(Elapsed(d))],
                          done, d, Elapsed(d))

RefreshOverlay ==
    /\ now <= StartTime + MaxSeconds * TicksPerSec
    /\ IF MissingConfig(config)
       THEN Rejected([status |-> "error", message |-> "Missing engine_id, worktree, or track"])
       ELSE IF ~Accepts(now, last_refresh_time)
       THEN Rejected([status |-> "rate_limited",
                      retry_after_sec |-> IntSeconds(Cooldown - (now - last_refresh_time))])
       ELSE \E d \in Durations, done \in Completions : Spawned(d, done)
    /\ UNCHANGED <<storeVars, searchVars, buildVars>>

Tick ==
    /\ now < StartTime + MaxSeconds * TicksPerSec
    /\ now' = now + 1
    /\ UNCHANGED <<last_refresh_time, r_result, r_log, storeVars, searchVars, buildVars>>

InitRefresh ==
    /\ config \in {CfgEngine, CfgSingle}
    /\ tables = [t \in TableNames |-> {}]
    /\ exists = {MainTable}
    /\ overlay_meta = {}
    /\ s_args = NoCall
    /\ s_result = NoCall
    /\ BuildAtRest
    /\ RefreshAtRest

NextRefresh ==
    \/ RefreshOverlay
    \/ Tick

SpecRefresh == InitRefresh /\ [][NextRefresh]_vars

\* C5: in one server process with engine id, worktree and track configured,
\* a call of overlay_refresh made fewer than 30 seconds after the most recent
\* call that spawned the build subprocess returns rate_limited and spawns
\* nothing; so no two spawns are fewer than 30 seconds apart.
C5_RefreshAtMostOncePerCooldown ==
    /\ (/\ r_result.op = "overlay_refresh"
        /\ ~MissingConfig(config)
        /\ r_result.prev >= 0
        /\ r_result.at - r_result.prev < REFRESH_COOLDOWN_SEC * TicksPerSec) =>
           /\ r_result.result.status = "rate_limited"
           /\ ~r_result.spawned
    /\ \A i, j \in DOMAIN r_log :
           i < j => r_log[j] - r_log[i] >= REFRESH_COOLDOWN_SEC * TicksPerSec

\* Two calls were accepted exactly 30 seconds apart, and a call less than a
\* second after the second of them was rejected.
C5_Witness ==
    /\ Len(r_log) = 2
    /\ r_log[2] - r_log[1] = REFRESH_COOLDOWN_SEC * TicksPerSec
    /\ r_result.op = "overlay_refresh"
    /\ r_result.result.status = "rate_limited"
    /\ r_result.at - r_result.prev < TicksPerSec

Called == r_result.op = "overlay_refresh"

\* C17: the cooldown runs from the acceptance of a refresh, not from the end
\* of its subprocess: a call made 30 seconds or more after the last
\* acceptance is accepted, however long that subprocess ran, and an accepted
\* call has set the timestamp to the time of the call whatever became of its
\* subprocess.
C17_CooldownFromAcceptance ==
    /\ (/\ Called
        /\ ~MissingConfig(config)
        /\ r_result.prev >= 0
        /\ r_result.at - r_result.prev >= REFRESH_COOLDOWN_SEC * TicksPerSec) => r_result.spawned
    /\ (Called /\ r_result.spawned) =>
           /\ last_refresh_time = r_result.at
           /\ LastSpawn = r_result.at

\* A call was accepted 30 seconds after the last acceptance, at the moment
\* the subprocess of that one ended, and its own subprocess failed.
C17_Witness ==
    /\ Called
    /\ r_result.spawned
    /\ r_result.prev >= 0
    /\ r_result.at - r_result.prev = REFRESH_COOLDOWN_SEC * TicksPerSec
    /\ r_result.prev_end = r_result.at
    /\ r_result.result.status = "error"
    /\ last_refresh_time = r_result.at

\* The call returned early: rate_limited, or the error of a missing setting.
WasRejected ==
    /\ Called
    /\ \/ r_result.result.status = "rate_limited"
       \/ r_result.result.status = "error" /\ "message" \in DOMAIN r_result.result

\* C18: a call that is rejected, as rate_limited or for a missing engine id,
\* worktree or track, spawns no subprocess and leaves the timestamp as it
\* was; so the timestamp any call finds is that of the last accepted call,
\* however many calls were rejected since.
C18_RejectedCallChangesNothing ==
    /\ WasRejected =>
          /\ ~r_result.spawned
          /\ last_refresh_time = r_result.stamp
          /\ LastSpawn = r_result.prev
    /\ (Called /\ r_result.prev >= 0) => r_result.stamp = r_result.prev
    /\ (Called /\ r_result.prev < 0) => r_result.stamp = 0

\* A call in the last half second of the cooldown was rejected.
C18_Witness ==
    /\ WasRejected
    /\ r_result.result.status = "rate_limited"
    /\ r_result.at - r_result.prev = REFRESH_COOLDOWN_SEC * TicksPerSec - 1
    /\ last_refresh_time = r_result.prev

\* The subprocess ended by itself, within the timeout.
Ended == Called /\ r_result.spawned /\ r_result.done # Killed

\* C19: when the subprocess exits nonzero, or exits zero with a standard
\* output that is not the JSON report, overlay_refresh returns a result with
\* status error that carries duration_ms.
C19_FailedSubprocessIsAnError ==
    (Ended /\ (r_result.done.returncode # 0 \/ ~Parses(r_result.done))) =>
        /\ r_result.result.status = "error"
        /\ "duration_ms" \in DOMAIN r_result.result

\* C20: when the subprocess needs more than 60 seconds, the call ends when
\* the 60 seconds are over and the tool's caller gets an error, not a result
\* with status ok.
C20_TimeoutEndsTheCall ==
    (Called /\ r_result.spawned /\ r_result.needs > SUBPROCESS_TIMEOUT_SEC * TicksPerSec) =>
        /\ r_result.ran = SUBPROCESS_TIMEOUT_SEC * TicksPerSec
        /\ now = r_result.at + SUBPROCESS_TIMEOUT_SEC * TicksPerSec
        /\ r_result.result.status = "TimeoutExpired"
        /\ r_result.result.status # "ok"

\* An accepted call whose subprocess needed more than the timeout.
C20_Witness ==
    /\ Called
    /\ r_result.spawned
    /\ r_result.needs > SUBPROCESS_TIMEOUT_SEC * TicksPerSec
    /\ r_result.result.status = "TimeoutExpired"
    /\ last_refresh_time = r_result.at

(***************************************************************************)
(* SpecNames: overlay_table_name called on any engine id of at most        *)
(* MaxIdLen characters.  The call and its arguments stand in s_args, what  *)
(* it returned or raised in s_result.                                      *)
(***************************************************************************)
MaxIdLen == 3

\* The characters an engine id is made of here: some that the pattern
\* accepts, and a space, a semicolon, a quote and a line terminator.
IdChars == {"e", "1", "_", "-", " ", ";", "'", "\n"}

EngineIds == UNION {[1..n -> IdChars] : n \in 0..MaxIdLen}

Prefixes == {DEFAULT_OVERLAY_TABLE_PREFIX, "o_"}

InitNames ==
    /\ \E engine_id \in EngineIds, prefix \in Prefixes :
          s_args = [op |-> "overlay_table_name", engine_id |-> engine_id, prefix |-> prefix]
    /\ s_result = NoCall
    /\ config = CfgEngine
    /\ tables = [t \in TableNames |-> {}]
    /\ exists = {MainTable}
    /\ overlay_meta = {}
    /\ BuildAtRest
    /\ RefreshAtRest

TableNameCall ==
    /\ s_args.op = "overlay_table_name"
    /\ s_result = NoCall
    /\ s_result' = [op |-> "overlay_table_name",
                    value |-> overlay_table_name(s_args.engine_id, s_args.prefix)]
    /\ UNCHANGED <<config, s_args, storeVars, buildVars, refreshVars>>

NextNames == TableNameCall

SpecNames == InitNames /\ [][NextNames]_vars

NameReturned == s_result.op = "overlay_table_name"

\* A non-empty string of ASCII letters, digits, '_' and '-'.
WellFormed(engine_id) ==
    engine_id # <<>> /\ \A i \in DOMAIN engine_id : engine_id[i] \notin {" ", ";", "'", "\n"}

\* C21: overlay_table_name returns a name only for a non-empty engine id
\* made of ASCII letters, digits, '_' and '-', and raises ValueError for
\* every other string; the name is the prefix followed by the engine id with
\* every '-' replaced by '_'.
C21_NameOnlyForWellFormedIds ==
    NameReturned =>
        IF WellFormed(s_args.engine_id)
        THEN s_result.value =
                s_args.prefix \o Join([i \in DOMAIN s_args.engine_id |->
                                          IF s_args.engine_id[i] = "-" THEN "_"
                                          ELSE s_args.engine_id[i]])
        ELSE s_result.value = ValueError


(***************************************************************************)
(* The three commands with any engine id.  argparse hands --engine-id to   *)
(* the command as it was typed; an id is looked at only where              *)
(* overlay_table_name is called.                                           *)
(***************************************************************************)
\* The ids of at most one character that _SAFE_ID_RE does not match.
RefusedIds == {engine_id \in EngineIds : Len(engine_id) <= 1 /\ ~SafeIdMatch(engine_id)}

CommandIds == {EngineIdChars} \cup RefusedIds

NextCommands ==
    \/ \E engine_id \in CommandIds, file_patterns \in PatternLists :
          BuildStart(engine_id, file_patterns)
    \/ BuildFailsEarly
    \/ Connect
    \/ ConnectFails
    \/ CreateTable
    \/ Truncate
    \/ Insert
    \/ CreateIndex
    \/ GetHead
    \/ UpsertMeta
    \/ Commit
    \/ StepFails
    \/ \E engine_id \in CommandIds : cleanup(engine_id)
    \/ \E engine_id \in CommandIds : status(engine_id)
    \/ \E op \in {"cleanup", "status"}, engine_id \in CommandIds, connected \in BOOLEAN :
          CommandFails(op, engine_id, connected)

SpecCommands == InitBuild /\ [][NextCommands]_vars

BuildEnded == history.builds > 0 /\ ~Running /\ b_result # NotExited

\* C22: a build, cleanup or status given an engine id that the sanitization
\* regex refuses ends with an error, not with a success result, and has
\* opened no database connection.
C22_RefusedIdOpensNothing ==
    /\ (BuildEnded /\ ~SafeIdMatch(build.engine_id)) =>
           b_result.exit = "error" /\ ~build.connected
    /\ (cli # NoCall /\ ~SafeIdMatch(cli.engine_id)) =>
           cli.outcome.exit = "error" /\ ~cli.connected


(***************************************************************************)
(* Builds that follow builds: the engine builds, commits to its branch,    *)
(* and builds again on what the earlier builds left in the store.          *)
(***************************************************************************)
InitRebuild ==
    /\ config = CfgEngine
    /\ tables = [t \in TableNames |-> {}]
    /\ exists = {MainTable}
    /\ overlay_meta = {}
    /\ s_args = NoCall
    /\ s_result = NoCall
    /\ \E files \in FileStates : worktree = [head |-> 1, files |-> files]
    /\ build = NoBuild
    /\ tx = NoTx
    /\ b_result = NotExited
    /\ history = [NoHistory EXCEPT !.cap = MaxRebuilds]
    /\ reader = NoRead
    /\ cli = NoCall
    /\ RefreshAtRest

NextRebuild ==
    \/ \E file_patterns \in PatternLists : BuildStart(EngineIdChars, file_patterns)
    \/ BuildFailsEarly
    \/ Connect
    \/ ConnectFails
    \/ CreateTable
    \/ Truncate
    \/ Insert
    \/ CreateIndex
    \/ GetHead
    \/ UpsertMeta
    \/ Commit
    \/ StepFails
    \/ \E files \in FileStates : GitCommit(files)

SpecRebuild == InitRebuild /\ [][NextRebuild]_vars

\* The last build has exited with a result, and so has the build before it,
\* which ran for the same engine with the same patterns at the same HEAD.
BuiltTwice ==
    /\ ~Running
    /\ b_result.exit = "ok"
    /\ history.prev # NoCall

\* C23: two builds in succession for the same engine on an unchanged worktree
\* print the same files_indexed and chunks_indexed, and after the second the
\* overlay table holds exactly as many rows as the second printed for
\* chunks_indexed.
C23_RebuildDoesNotAccumulate ==
    BuiltTwice =>
        /\ b_result.out.files_indexed = history.prev.files_indexed
        /\ b_result.out.chunks_indexed = history.prev.chunks_indexed
        /\ Cardinality(Committed.rows) = b_result.out.chunks_indexed


(***************************************************************************)
(* chunk_text on its own: any short text of letters, blanks and line       *)
(* feeds, any small chunk_size >= 1 and chunk_overlap >= 0 (the overlap    *)
(* may reach or exceed the size), one step per iteration of the loop.      *)
(***************************************************************************)
MaxTextLen == 6

MaxChunkSize == 5

MaxChunkOverlap == 2

TextChars == {"x", " ", "\n"}

Texts == UNION {[1..n -> TextChars] : n \in 0..MaxTextLen}

InitChunks ==
    /\ \E text \in Texts, chunk_size \in 1..MaxChunkSize, chunk_overlap \in 0..MaxChunkOverlap :
          s_args = [op |-> "chunk_text", text |-> text, chunk_size |-> chunk_size,
                    chunk_overlap |-> chunk_overlap]
    /\ s_result = NoCall
    /\ config = CfgEngine
    /\ tables = [t \in TableNames |-> {}]
    /\ exists = {MainTable}
    /\ overlay_meta = {}
    /\ BuildAtRest
    /\ RefreshAtRest

\* Where chunk_text is: in its loop or returned, the window start now and at
\* the iteration before (-1 when there was none), where that iteration's
\* window ended, the iterations made, the next chunk index and the chunks
\* emitted so far.
Chunking(pc, start, was, end, iterations, chunk_idx, chunks) ==
    [op |-> "chunk_text", pc |-> pc, start |-> start, was |-> was, end |-> end,
     iterations |-> iterations, chunk_idx |-> chunk_idx, chunks |-> chunks]

\* The call, up to the loop: the two early returns, or start = 0.
ChunkEnter ==
    /\ s_args.op = "chunk_text"
    /\ s_result = NoCall
    /\ s_result' =
          IF Blank(s_args.text) THEN Chunking("returned", 0, -1, -1, 0, 0, <<>>)
          ELSE IF Len(s_args.text) <= s_args.chunk_size
          THEN Chunking("returned", 0, -1, -1, 0, 0,
                        <<[text |-> s_args.text, location |-> "0:0"]>>)
          ELSE Chunking("loop", 0, -1, -1, 0, 0, <<>>)
    /\ UNCHANGED <<config, s_args, storeVars, buildVars, refreshVars>>

\* while start < len(text): one iteration.
ChunkIterate ==
    /\ s_result.op = "chunk_text"
    /\ s_result.pc = "loop"
    /\ s_result.start < Len(s_args.text)
    /\ LET next == Iteration(s_args.text, s_args.chunk_size, s_args.chunk_overlap,
                             s_result.start, s_result.chunk_idx, s_result.chunks)
       IN s_result' = Chunking("loop", next.start, s_result.start, next.end,
                               s_result.iterations + 1, next.chunk_idx, next.chunks)
    /\ UNCHANGED <<config, s_args, storeVars, buildVars, refreshVars>>

\* The loop condition fails: return chunks.
ChunkReturn ==
    /\ s_result.op = "chunk_text"
    /\ s_result.pc = "loop"
    /\ s_result.start >= Len(s_args.text)
    /\ s_result' = [s_result EXCEPT !.pc = "returned"]
    /\ UNCHANGED <<config, s_args, storeVars, buildVars, refreshVars>>

NextChunks ==
    \/ ChunkEnter
    \/ ChunkIterate
    \/ ChunkReturn

SpecChunks == InitChunks /\ [][NextChunks]_vars

(***************************************************************************)
(* Claims about chunk_text.                                                *)
(***************************************************************************)
ChunksReturned == s_result.op = "chunk_text" /\ s_result.pc = "returned"

WhitespaceOnly(text) == \A i \in DOMAIN text : text[i] # "x"

\* C24: chunk_text returns the empty list for every empty or whitespace-only
\* input, and for every input no longer than chunk_size that has a non-blank
\* character it returns exactly one chunk, whose text is the whole input and
\* whose location is "0:0".
C24_BlankAndShortInputs ==
    ChunksReturned =>
        /\ WhitespaceOnly(s_args.text) => s_result.chunks = <<>>
        /\ (~WhitespaceOnly(s_args.text) /\ Len(s_args.text) <= s_args.chunk_size) =>
               s_result.chunks = <<[text |-> s_args.text, location |-> "0:0"]>>

\* chunk_text has returned for a whitespace-only input of several characters
\* that fits chunk_size.
C24_Witness ==
    /\ ChunksReturned
    /\ WhitespaceOnly(s_args.text)
    /\ Len(s_args.text) > 1
    /\ Len(s_args.text) <= s_args.chunk_size
    /\ s_result.chunks = <<>>

Locations == [i \in DOMAIN s_result.chunks |-> s_result.chunks[i].location]

\* C25: whenever chunk_text emits at least one chunk, the locations of the
\* emitted chunks are pairwise distinct and the location of the first emitted
\* chunk has offset 0.
C25_LocationsDistinctFirstAtZero ==
    (ChunksReturned /\ s_result.chunks # <<>>) =>
        /\ \A i, j \in DOMAIN Locations : i # j => Locations[i] # Locations[j]
        /\ Locations[1] = Location(0, 0)

Iterated == s_result.op = "chunk_text" /\ s_result.iterations > 0

\* C26: chunk_text terminates for every text, chunk_size >= 1 and
\* chunk_overlap >= 0, the overlaps that reach or exceed the size included:
\* every iteration of the loop leaves the window start greater than it found
\* it, so the loop makes at most len(text) iterations.
C26_WindowStartIncreases ==
    Iterated =>
        /\ s_result.start > s_result.was
        /\ s_result.iterations <= Len(s_args.text)

\* chunk_text has returned after several iterations with an overlap that is
\* at least the chunk size.
C26_Witness ==
    /\ ChunksReturned
    /\ s_result.iterations > 2
    /\ s_args.chunk_overlap >= s_args.chunk_size
    /\ Len(s_result.chunks) > 1


(***************************************************************************)
(* build_all: the orchestrator of the main index.  The input is the        *)
(* manifest (the tracks of railyard.yaml), the --tracks flag, and the      *)
(* tracks for which the main indexer raises.  One step per build_track.    *)
(***************************************************************************)
MaxTracks == 3

\* The entries of a manifest; one has no name.
TrackDefs ==
    {[name |-> "backend", language |-> "go", file_patterns |-> <<"*.go", "cmd/**">>],
     [name |-> "frontend", language |-> "typescript", file_patterns |-> <<"*.ts">>],
     [name |-> "docs", language |-> None, file_patterns |-> <<>>],
     [name |-> "", language |-> None, file_patterns |-> <<"*">>]}

TrackNames == {t.name : t \in TrackDefs} \ {""}

Manifests == UNION {[1..n -> TrackDefs] : n \in 0..MaxTracks}

\* load_tracks: the entries that have a name, in the manifest's order.
load_tracks(manifest) == SelectSeq(manifest, LAMBDA t : t.name # "")

\* [t for t in tracks if t["name"] in track_names]; no flag, no filter.
FilterTracks(tracks, track_names) ==
    IF track_names = {} THEN tracks ELSE SelectSeq(tracks, LAMBDA t : t.name \in track_names)

InitBuildAll ==
    /\ \E manifest \in Manifests, track_names \in SUBSET TrackNames, raising \in SUBSET TrackNames :
          s_args = [op |-> "build_all", manifest |-> manifest, tracks |-> track_names,
                    raising |-> raising]
    /\ s_result = NoCall
    /\ config = CfgEngine
    /\ tables = [t \in TableNames |-> {}]
    /\ exists = {MainTable}
    /\ overlay_meta = {}
    /\ BuildAtRest
    /\ RefreshAtRest

\* Where main is: the tracks it builds, the calls of build_track it has made,
\* and how it exited (0, 1 from sys.exit, or the exception of a build).
BuildingAll(pc, tracks, called, exit) ==
    [op |-> "build_all", pc |-> pc, tracks |-> tracks, called |-> called, exit |-> exit]

\* main up to the loop: no track, or none that the flag names, is exit 1.
MainEnter ==
    /\ s_args.op = "build_all"
    /\ s_result = NoCall
    /\ LET loaded == load_tracks(s_args.manifest)
           tracks == FilterTracks(loaded, s_args.tracks)
       IN s_result' = IF loaded = <<>> \/ tracks = <<>>
                      THEN BuildingAll("exited", tracks, <<>>, "1")
                      ELSE BuildingAll("loop", tracks, <<>>, "none")
    /\ UNCHANGED <<config, s_args, storeVars, buildVars, refreshVars>>

\* One iteration of `for track in tracks`: build_track calls the main indexer;
\* when that raises, the exception leaves the loop and main.
BuildTrack ==
    /\ s_result.op = "build_all"
    /\ s_result.pc = "loop"
    /\ Len(s_result.called) < Len(s_result.tracks)
    /\ LET track == s_result.tracks[Len(s_result.called) + 1]
           call == [track_name |-> track.name,
                    file_patterns |-> included_patterns_for_track(NoOverride,
                                                                  track.file_patterns),
                    language |-> track.language]
           called == Append(s_result.called, call)
       IN s_result' = IF track.name \in s_args.raising
                      THEN BuildingAll("exited", s_result.tracks, called, "raised")
                      ELSE BuildingAll("loop", s_result.tracks, called, "none")
    /\ UNCHANGED <<config, s_args, storeVars, buildVars, refreshVars>>

\* The loop is over: "Done." is printed and main returns.
MainDone ==
    /\ s_result.op = "build_all"
    /\ s_result.pc = "loop"
    /\ Len(s_result.called) = Len(s_result.tracks)
    /\ s_result' = [s_result EXCEPT !.pc = "exited", !.exit = "0"]
    /\ UNCHANGED <<config, s_args, storeVars, buildVars, refreshVars>>

NextBuildAll ==
    \/ MainEnter
    \/ BuildTrack
    \/ MainDone

SpecBuildAll == InitBuildAll /\ [][NextBuildAll]_vars

BuildAllExited == s_result.op = "build_all" /\ s_result.pc = "exited"

\* The tracks main was to build whose main indexer raises.
FailingTracks == {i \in DOMAIN s_result.tracks : s_result.tracks[i].name \in s_args.raising}

\* C27: when the orchestrator builds the tracks of a manifest in order and the
\* build of one of them fails, every later track is still built, and the
\* failure is surfaced to the caller.
C27_FailedTrackDoesNotBlockOthers ==
    (BuildAllExited /\ FailingTracks # {}) =>
        /\ \A i \in DOMAIN s_result.tracks :
              i <= Len(s_result.called) /\ s_result.called[i].track_name = s_result.tracks[i].name
        /\ s_result.exit # "0"


(***************************************************************************)
(* Connections.  Every operation that goes to the database has the same    *)
(* shape: psycopg2.connect, then a try block of statements, then           *)
(* conn.close() in the finally clause.  Here each operation runs on its    *)
(* own, statement by statement; any statement may raise, and so may        *)
(* connect.                                                                *)
(***************************************************************************)
MaxInserts == 2

MaxPending == 2

Operations == {"query_table", "get_deleted_files", "get_overlay_status", "build", "cleanup",
               "status", "run_migrations"}

\* The operations that may return or raise before they connect:
\* get_overlay_status without an engine id, build with nothing to index or a
\* refused engine id, cleanup with a refused engine id.
ReturnsEarly == {"get_overlay_status", "build", "cleanup"}

RECURSIVE Repeat(_, _)
Repeat(steps, n) == IF n = 0 THEN <<>> ELSE steps \o Repeat(steps, n - 1)

\* What the try block of an operation executes on the connection, for n rows
\* to insert (build) or n pending migrations (run_migrations).
Statements(operation, n) ==
    CASE operation = "build" ->
             <<"create", "truncate">> \o Repeat(<<"insert">>, n)
                 \o <<"index", "rev-parse", "upsert", "commit">>
      [] operation = "cleanup" -> <<"drop", "delete", "commit">>
      [] operation = "run_migrations" ->
             <<"create", "commit", "select">> \o Repeat(<<"execute", "insert", "commit">>, n)
      [] OTHER -> <<"select">>

Repeats(operation) ==
    CASE operation = "build" -> 0..MaxInserts
      [] operation = "run_migrations" -> 0..MaxPending
      [] OTHER -> {0}

InitConnections ==
    /\ \E operation \in Operations :
          \E n \in Repeats(operation), early \in BOOLEAN :
             /\ early => operation \in ReturnsEarly
             /\ s_args = [op |-> "connection", operation |-> operation,
                          statements |-> Statements(operation, n), early |-> early]
    /\ s_result = NoCall
    /\ config = CfgEngine
    /\ tables = [t \in TableNames |-> {}]
    /\ exists = {MainTable}
    /\ overlay_meta = {}
    /\ BuildAtRest
    /\ RefreshAtRest

\* Where the operation is, the statements it has executed, the connections
\* psycopg2.connect has returned to it, the calls of conn.close() it has
\* made, and whether an exception is on its way out.
Connection(pc, executed, opened, closed, raised) ==
    [op |-> "connection", pc |-> pc, executed |-> executed, opened |-> opened,
     closed |-> closed, raised |-> raised]

\* A try block without the finally clause: an exception leaves the operation.
AfterTryNoFinally(raised) == IF raised THEN "exited" ELSE "finally"

\* Where control goes when it leaves the try block: to the finally clause,
\* with or without an exception.
AfterTry(raised) == "finally"

\* The operation up to psycopg2.connect.
Enter ==
    /\ s_args.op = "connection"
    /\ s_result = NoCall
    /\ s_result' = Connection(IF s_args.early THEN "exited" ELSE "connect", 0, 0, 0, FALSE)
    /\ UNCHANGED <<config, s_args, storeVars, buildVars, refreshVars>>

\* conn = psycopg2.connect(...)
Connected ==
    /\ s_result.op = "connection"
    /\ s_result.pc = "connect"
    /\ s_result' = [s_result EXCEPT !.pc = "try", !.opened = @ + 1]
    /\ UNCHANGED <<config, s_args, storeVars, buildVars, refreshVars>>

\* psycopg2.connect raises: it is called before the try block.
ConnectRaises ==
    /\ s_result.op = "connection"
    /\ s_result.pc = "connect"
    /\ s_result' = [s_result EXCEPT !.pc = "exited", !.raised = TRUE]
    /\ UNCHANGED <<config, s_args, storeVars, buildVars, refreshVars>>

\* The next statement of the try block executes.
Statement ==
    /\ s_result.op = "connection"
    /\ s_result.pc = "try"
    /\ s_result.executed < Len(s_args.statements)
    /\ s_result' = [s_result EXCEPT !.executed = @ + 1]
    /\ UNCHANGED <<config, s_args, storeVars, buildVars, refreshVars>>

\* The next statement of the try block raises.
StatementRaises ==
    /\ s_result.op = "connection"
    /\ s_result.pc = "try"
    /\ s_result.executed < Len(s_args.statements)
    /\ s_result' = [s_result EXCEPT !.pc = AfterTry(TRUE), !.raised = TRUE]
    /\ UNCHANGED <<config, s_args, storeVars, buildVars, refreshVars>>

\* The try block ends (or returns).
TryEnds ==
    /\ s_result.op = "connection"
    /\ s_result.pc = "try"
    /\ s_result.executed = Len(s_args.statements)
    /\ s_result' = [s_result EXCEPT !.pc = AfterTry(FALSE)]
    /\ UNCHANGED <<config, s_args, storeVars, buildVars, refreshVars>>

\* finally: conn.close(); then the result is returned or the exception goes on.
Close ==
    /\ s_result.op = "connection"
    /\ s_result.pc = "finally"
    /\ s_result' = [s_result EXCEPT !.pc = "exited", !.closed = @ + 1]
    /\ UNCHANGED <<config, s_args, storeVars, buildVars, refreshVars>>

NextConnections ==
    \/ Enter
    \/ Connected
    \/ ConnectRaises
    \/ Statement
    \/ StatementRaises
    \/ TryEnds
    \/ Close

SpecConnections == InitConnections /\ [][NextConnections]_vars

OperationExited == s_result.op = "connection" /\ s_result.pc = "exited"

\* C28: every database connection an operation opens is closed exactly once
\* on every exit path of the operation, the paths where a statement raises
\* included; until it exits, the operation has closed no connection it has
\* not opened.
C28_OpenedConnectionsClosedOnce ==
    s_result.op = "connection" =>
        /\ s_result.opened <= 1
        /\ s_result.closed <= s_result.opened
        /\ OperationExited => s_result.closed = s_result.opened

\* An operation has exited with an exception that a statement after the first
\* raised, and has closed its connection.
C28_Witness ==
    /\ OperationExited
    /\ s_result.raised
    /\ s_result.executed > 0
    /\ s_result.opened = 1
    /\ s_result.closed = 1


\* The last build has exited with a result and the worktree is as it found it.
BuiltHere == ~Running /\ b_result.exit = "ok" /\ history.at = worktree.head

\* The deleted_files the metadata of the engine records, as search reads it.
RecordedDeleted ==
    UNION {ItemsOf(m.deleted_files) : m \in {m \in overlay_meta : m.engine_id = EngineId}}

\* C29: after a build of the engine has exited successfully, every row of the
\* engine's overlay table belongs to a file of that build's filtered changed
\* set; and when the branch does not differ from main, a successful build
\* leaves the overlay without rows and deleted_files empty.
C29_RowsAreOfTheLastBuild ==
    /\ (~Running /\ b_result.exit = "ok") =>
           \A r \in Committed.rows : r.filename \in ItemsOf(build.changed)
    /\ (BuiltHere /\ get_changed_files(worktree) = <<>>) =>
           Committed.rows = {} /\ RecordedDeleted = {}


\* The table names of the well-formed engine ids, per prefix.
NamesOf == [prefix \in Prefixes |->
               [engine_id \in {e \in EngineIds : WellFormed(e)} |->
                   overlay_table_name(engine_id, prefix)]]

\* C30: two different valid engine ids resolve to two different overlay table
\* names under the same prefix, so that build and cleanup of one engine never
\* touch the table the other engine reads.
C30_DifferentIdsDifferentTables ==
    (NameReturned /\ WellFormed(s_args.engine_id)) =>
        \A other \in DOMAIN NamesOf[s_args.prefix] :
            other # s_args.engine_id => NamesOf[s_args.prefix][other] # s_result.value


(***************************************************************************)
(* An engine-mode search while a build of the engine runs.  search queries *)
(* the overlay table on one connection (ReadOverlay) and, when that query  *)
(* has returned, loads deleted_files on another (ReadDeletedFiles); each   *)
(* connection sees what is committed when its statement runs.              *)
(***************************************************************************)
\* deleted = get_deleted_files(config.database_url, config.engine_id)
ReadDeletedFiles ==
    /\ reader.kind = "saw"
    /\ reader.exists
    /\ reader' = [kind |-> "searched", exists |-> TRUE, rows |-> reader.rows,
                  deleted |-> get_deleted_files(EngineId)]
    /\ UNCHANGED <<storeVars, worktree, build, tx, b_result, history>>
    /\ UNCHANGED <<searchVars, refreshVars, cli>>

NextSearchDuringBuild ==
    \/ \E file_patterns \in PatternLists : BuildStart(EngineIdChars, file_patterns)
    \/ BuildFailsEarly
    \/ Connect
    \/ ConnectFails
    \/ CreateTable
    \/ Truncate
    \/ Insert
    \/ CreateIndex
    \/ GetHead
    \/ UpsertMeta
    \/ Commit
    \/ StepFails
    \/ ReadOverlay
    \/ ReadDeletedFiles
    \/ \E files \in FileStates : GitCommit(files)

SpecSearchDuringBuild == InitBuild /\ [][NextSearchDuringBuild]_vars

\* The deleted_files a committed store records for the engine.
DeletedIn(v) ==
    UNION {ItemsOf(m.deleted_files) : m \in {m \in v.meta : m.engine_id = EngineId}}

\* C31: an engine-mode search that runs while a build of the engine runs
\* merges overlay rows and a deleted_files list of one committed build: those
\* the store held when the build started, or those the build committed.
C31_RowsAndDeletedOfOneBuild ==
    reader.kind = "searched" =>
        \E v \in {history.before, Committed} :
            reader.rows = v.rows /\ reader.deleted = DeletedIn(v)


(***************************************************************************)
(* Two overlay_refresh calls on two threads of the server process.  The    *)
(* statements of refresh_overlay run one at a time, and the statements of  *)
(* the two calls may interleave: the test of the cooldown, the assignment  *)
(* of _last_refresh_time, subprocess.run.                                  *)
(***************************************************************************)
Callers == {1, 2}

\* Where each call is, and the time.time() it took.
Racing(pc, at) == [op |-> "overlay_refresh", pc |-> pc, at |-> at]

InitRefreshRace ==
    /\ config = CfgEngine
    /\ tables = [t \in TableNames |-> {}]
    /\ exists = {MainTable}
    /\ overlay_meta = {}
    /\ s_args = [op |-> "overlay_refresh", calls |-> Cardinality(Callers)]
    /\ s_result = Racing([c \in Callers |-> "called"], [c \in Callers |-> 0])
    /\ BuildAtRest
    /\ RefreshAtRest

\* now = time.time(); if now - _last_refresh_time < REFRESH_COOLDOWN_SEC: return
CheckCooldown(c) ==
    /\ s_result.pc[c] = "called"
    /\ s_result' = Racing([s_result.pc EXCEPT ![c] = IF Accepts(now, last_refresh_time)
                                                     THEN "accepted" ELSE "rate_limited"],
                          [s_result.at EXCEPT ![c] = now])
    /\ UNCHANGED <<config, s_args, storeVars, buildVars, refreshVars>>

\* _last_refresh_time = now
SetLastRefreshTime(c) ==
    /\ s_result.pc[c] = "accepted"
    /\ last_refresh_time' = Stamp(s_result.at[c], now)
    /\ s_result' = [s_result EXCEPT !.pc[c] = "stamped"]
    /\ UNCHANGED <<config, s_args, storeVars, buildVars, now, r_result, r_log>>

\* subprocess.run(cmd, ...): the build subprocess is spawned.
SpawnBuild(c) ==
    /\ s_result.pc[c] = "stamped"
    /\ r_log' = Append(r_log, s_result.at[c])
    /\ s_result' = [s_result EXCEPT !.pc[c] = "spawned"]
    /\ UNCHANGED <<config, s_args, storeVars, buildVars, now, last_refresh_time, r_result>>

\* Time passes before a statement of a call that has not returned.
RaceTick ==
    /\ \E c \in Callers : s_result.pc[c] \notin {"spawned", "rate_limited"}
    /\ now < StartTime + MaxSeconds * TicksPerSec
    /\ now' = now + 1
    /\ UNCHANGED <<last_refresh_time, r_result, r_log, storeVars, searchVars, buildVars>>

NextRefreshRace ==
    \/ \E c \in Callers : CheckCooldown(c)
    \/ \E c \in Callers : SetLastRefreshTime(c)
    \/ \E c \in Callers : SpawnBuild(c)
    \/ RaceTick

SpecRefreshRace == InitRefreshRace /\ [][NextRefreshRace]_vars

\* C32: of two overlay_refresh calls whose statements interleave, at most one
\* is accepted and spawns the build subprocess - unless the cooldown has
\* passed between the two.
C32_OneOfTwoConcurrentCallsSpawns ==
    \A i, j \in DOMAIN r_log :
        i # j => (r_log[j] - r_log[i] >= Cooldown \/ r_log[i] - r_log[j] >= Cooldown)


(***************************************************************************)
(* Engine mode with one of the two tables missing: the overlay table       *)
(* before the engine's first build or after cleanup, or the main table     *)
(* before the track's bulk build.                                          *)
(***************************************************************************)
EngineSearchedOneMissing ==
    /\ s_args.op = "search_code"
    /\ config.main_table # None
    /\ config.overlay_table # None
    /\ Cardinality({config.main_table, config.overlay_table} \cap exists) = 1

\* The rows the table whose query succeeds returns to the search made.
SurvivingRows ==
    UNION {ItemsOf(query_table(t, s_args.ord, s_args.top_k, s_args.min_score)) :
              t \in {config.main_table, config.overlay_table} \cap exists}

\* C33: in engine mode, when the query of exactly one of the two tables
\* fails, search does not raise: it answers with rows of the table whose
\* query succeeded, and with at least one when that table returned any.
C33_OneFailedTableTolerated ==
    EngineSearchedOneMissing =>
        /\ s_result.status = "ok"
        /\ ItemsOf(Rows) \subseteq SurvivingRows
        /\ SurvivingRows # {} /\ overlay_meta = {} => Rows # <<>>


\* The standard output is progress lines, any number of them, and then a
\* line of JSON, which the newline of print() may end.
FinalLine(stdout) ==
    IF stdout[Len(stdout)].kind = "blank" THEN Len(stdout) - 1 ELSE Len(stdout)

ProgressThenJson(stdout) ==
    /\ stdout # <<>>
    /\ FinalLine(stdout) >= 1
    /\ stdout[FinalLine(stdout)].kind = "json"
    /\ \A i \in 1..(FinalLine(stdout) - 1) : stdout[i].kind = "text"

\* C34: when the subprocess exits 0 and its standard output is progress
\* lines followed by a final JSON line, overlay_refresh returns status ok
\* with the files_indexed and chunks_indexed of that final line.
C34_FinalLineIsTheReport ==
    (Ended /\ r_result.done.returncode = 0 /\ ProgressThenJson(r_result.done.stdout)) =>
        LET final == r_result.done.stdout[FinalLine(r_result.done.stdout)].value
        IN /\ r_result.result.status = "ok"
           /\ r_result.result.files_indexed = Get(final, "files_indexed")
           /\ r_result.result.chunks_indexed = Get(final, "chunks_indexed")


\* The last call was answered rate_limited.
RateLimited == Called /\ r_result.result.status = "rate_limited"

\* C35: a rate_limited answer carries an integer retry_after_sec between 0
\* and 30, and the next call, when it is made retry_after_sec seconds or more
\* after the rejected one - no call was accepted in between -, is not
\* answered rate_limited.
C35_RetryAfterIsEnough ==
    [][RateLimited =>
         /\ r_result.result.retry_after_sec \in 0..REFRESH_COOLDOWN_SEC
         /\ (/\ r_result' # r_result
             /\ r_result'.at >= r_result.at + r_result.result.retry_after_sec * TicksPerSec)
                => r_result'.result.status # "rate_limited"]_vars


(***************************************************************************)
(* load_server_config.  The value of COCOINDEX_MAIN_TABLE is a sequence of *)
(* pieces: table names, commas and blanks.                                 *)
(***************************************************************************)
\* raw.split(","): the pieces between the commas.
RECURSIVE split(_)
split(raw) ==
    IF \A i \in DOMAIN raw : raw[i] # "," THEN <<raw>>
    ELSE LET c == CHOOSE i \in DOMAIN raw : raw[i] = "," /\ \A j \in 1..(i - 1) : raw[j] # ","
         IN <<SubSeq(raw, 1, c - 1)>> \o split(SubSeq(raw, c + 1, Len(raw)))

\* t.strip(): the blanks at either end go.
RECURSIVE StripBlanks(_)
StripBlanks(t) ==
    IF t = <<>> THEN <<>>
    ELSE IF Head(t) = " " THEN StripBlanks(Tail(t))
    ELSE IF t[Len(t)] = " " THEN StripBlanks(SubSeq(t, 1, Len(t) - 1))
    ELSE t

\* os.environ.get(name) or None
OrNone(value) == IF value = "" THEN None ELSE value

load_server_config(env) ==
    LET raw_tables == env.COCOINDEX_MAIN_TABLE
        listed == \E i \in DOMAIN raw_tables : raw_tables[i] = ","
        stripped == [i \in DOMAIN split(raw_tables) |-> Join(StripBlanks(split(raw_tables)[i]))]
        main_tables == IF listed THEN SelectSeq(stripped, LAMBDA t : t # "") ELSE <<>>
    IN [engine_id |-> OrNone(env.COCOINDEX_ENGINE_ID),
        main_table |-> IF listed
                       THEN (IF main_tables # <<>> THEN main_tables[1] ELSE None)
                       ELSE OrNone(Join(raw_tables)),
        main_tables |-> main_tables,
        overlay_table |-> OrNone(env.COCOINDEX_OVERLAY_TABLE),
        worktree |-> OrNone(env.COCOINDEX_WORKTREE),
        track |-> OrNone(env.COCOINDEX_TRACK)]

\* Values of COCOINDEX_MAIN_TABLE: one table, lists of two in either order,
\* with blanks and empty items, a comma alone.
RawTables ==
    {<<MainTable>>,
     <<MainTable, ",", MainTable2>>,
     <<" ", ",", MainTable2, ",", MainTable, " ">>,
     <<",">>}

\* The rows the store holds when the server starts.
MaxListedRows == 2

\* The environments of an engine's server: the overlay table is configured.
EngineEnvs ==
    {[COCOINDEX_MAIN_TABLE |-> raw, COCOINDEX_OVERLAY_TABLE |-> OverlayTable,
      COCOINDEX_ENGINE_ID |-> EngineId, COCOINDEX_WORKTREE |-> "/worktree",
      COCOINDEX_TRACK |-> "backend"] : raw \in RawTables}

InitListed ==
    /\ InitStoreOf({load_server_config(env) : env \in EngineEnvs}, MaxListedRows)
    /\ BuildAtRest
    /\ RefreshAtRest

SpecListed == InitListed /\ [][NextSearch]_vars

\* The configuration that names the first listed main table alone.
FirstOnly(cfg) == [cfg EXCEPT !.main_tables = <<>>]

\* search_code was called with main tables listed and an overlay table.
ListedSearched ==
    /\ s_args.op = "search_code"
    /\ Len(config.main_tables) >= 1
    /\ config.overlay_table # None

\* C36: with a list of main tables and an overlay table configured, a search
\* is the engine-mode search of the first listed main table and the overlay
\* table: it returns - or raises - what it would with that table alone
\* configured, and no returned row comes from another listed table.
C36_OnlyFirstListedAndOverlay ==
    ListedSearched =>
        /\ config.main_table = config.main_tables[1]
        /\ s_result = SearchEngine(FirstOnly(config), <<s_args.ord, s_args.ord>>,
                                   s_args.top_k, s_args.min_score)
        /\ \A i \in DOMAIN Rows :
              Rows[i].code \in CodesOf(config.main_tables[1]) \cup CodesOf(OverlayTable)

\* Two tables are listed, the second holds a row that scores higher than any
\* row returned, and the search returned rows.
C36_Witness ==
    /\ ListedSearched
    /\ Len(config.main_tables) = 2
    /\ Rows # <<>>
    /\ \E r \in tables[config.main_tables[2]] : r.raw >= s_args.min_score


(***************************************************************************)
(* SpecSql: the table names a search writes into the text of its SQL       *)
(* statements, for any values of COCOINDEX_MAIN_TABLE and                  *)
(* COCOINDEX_OVERLAY_TABLE of at most MaxIdLen characters.  A statement is *)
(* its verb and the table name that was interpolated into it.              *)
(***************************************************************************)
\* The characters of a table name in the environment: two that the
\* identifier pattern accepts, the list separator, a blank and a semicolon.
TableChars == {"e", "_", ",", " ", ";"}

RawNames == UNION {[1..n -> TableChars] : n \in 0..MaxIdLen}

OverlayNames == {<<>>, <<"e">>, <<"e", ";">>}

ServerEnv(raw, overlay) ==
    [COCOINDEX_MAIN_TABLE |-> raw, COCOINDEX_OVERLAY_TABLE |-> Join(overlay),
     COCOINDEX_ENGINE_ID |-> IF overlay = <<>> THEN "" ELSE EngineId,
     COCOINDEX_WORKTREE |-> "/worktree", COCOINDEX_TRACK |-> "backend"]

InitSql ==
    /\ \E raw \in RawNames, overlay \in OverlayNames :
          /\ config = load_server_config(ServerEnv(raw, overlay))
          /\ s_args = [op |-> "serve", env |-> ServerEnv(raw, overlay)]
    /\ s_result = NoCall
    /\ tables = [t \in TableNames |-> {}]
    /\ exists = {}
    /\ overlay_meta = {}
    /\ BuildAtRest
    /\ RefreshAtRest

\* The tables search hands to query_table, which writes each into
\* f"... FROM {table} ...".
Queried(cfg) ==
    IF cfg.main_table = None /\ cfg.main_tables = <<>> THEN {}
    ELSE IF cfg.main_tables # <<>> /\ cfg.overlay_table = None THEN ItemsOf(cfg.main_tables)
    ELSE IF cfg.overlay_table = None THEN {cfg.main_table}
    ELSE {cfg.main_table, cfg.overlay_table}

SearchSql(top_k, ord) ==
    /\ s_args.op = "serve"
    /\ s_result = NoCall
    /\ s_result' = [op |-> "search_code", top_k |-> top_k,
                    sql |-> {[verb |-> "SELECT", table |-> t] : t \in Queried(config)},
                    status |-> search(config, <<ord, ord>>, top_k, 0).status]
    /\ UNCHANGED <<config, s_args, storeVars, buildVars, refreshVars>>

NextSql == \E top_k \in 1..MaxTopK, ord \in TieOrders : SearchSql(top_k, ord)

SpecSql == InitSql /\ [][NextSql]_vars

\* The names the identifier pattern accepts.
SanitizedNames == {Join(name) : name \in {n \in RawNames : SafeIdMatch(n)}}

\* C37: every table name in the text of a statement of a search is a name
\* the identifier pattern accepts; no raw environment string is a table
\* name in SQL text.
C37_OnlySanitizedNamesInSql ==
    s_result.op = "search_code" =>
        \A statement \in s_result.sql : statement.table \in SanitizedNames


\* The newlines in the last quarter of the window that started at `start`:
\* at the offsets from start + floor(3 * chunk_size / 4) up to the window's
\* last character.
NewlinesInLastQuarter(text, chunk_size, start) ==
    {p \in (start + (3 * chunk_size) \div 4)..(start + chunk_size - 1) : text[p + 1] = "\n"}

\* C38: for an input longer than chunk_size, every emitted chunk is at most
\* chunk_size characters long, and a window that does not reach the end of
\* the text ends immediately after the last newline of its last quarter when
\* there is one, and at start + chunk_size otherwise.
C38_WindowEndsAfterLastNewline ==
    Iterated =>
        /\ \A i \in DOMAIN s_result.chunks :
              Len(s_result.chunks[i].text) <= s_args.chunk_size
        /\ s_result.was + s_args.chunk_size < Len(s_args.text) =>
              LET newlines == NewlinesInLastQuarter(s_args.text, s_args.chunk_size,
                                                    s_result.was)
              IN IF newlines # {}
                 THEN \E p \in newlines :
                         /\ \A q \in newlines : q <= p
                         /\ s_result.end = p + 1
                 ELSE s_result.end = s_result.was + s_args.chunk_size

\* A window that does not reach the end of the text has a newline in its
\* last quarter, ended after it, before start + chunk_size, and emitted its
\* chunk.
C38_Witness ==
    /\ Iterated
    /\ s_result.was + s_args.chunk_size < Len(s_args.text)
    /\ NewlinesInLastQuarter(s_args.text, s_args.chunk_size, s_result.was) # {}
    /\ s_result.end < s_result.was + s_args.chunk_size
    /\ s_result.chunks # <<>>
    /\ Len(s_result.chunks[Len(s_result.chunks)].text) = s_result.end - s_result.was


\* The text of chunk i is the slice of the input at offset o.
SliceAt(i, o) ==
    LET chunk == s_result.chunks[i]
    IN /\ o + Len(chunk.text) <= Len(s_args.text)
       /\ chunk.text = SubSeq(s_args.text, o + 1, o + Len(chunk.text))

\* Chunk i, the i-th emitted, has the location "<i - 1>:<o>".
LocatedAt(i, o) == s_result.chunks[i].location = ToString(i - 1) \o ":" \o ToString(o)

Offsets == 0..Len(s_args.text)

\* C39: for an input longer than chunk_size, the location of each emitted
\* chunk is its index - 0, 1, 2, ... in the order emitted - and an offset, the
\* chunk's text is the slice of the input that starts at that offset, the
\* offsets increase strictly, and every character of the input that is not
\* whitespace lies within an emitted chunk.
C39_ChunksAreSlicesThatCover ==
    (ChunksReturned /\ Len(s_args.text) > s_args.chunk_size) =>
        /\ \A i \in DOMAIN s_result.chunks :
              \E o \in Offsets : LocatedAt(i, o) /\ SliceAt(i, o)
        /\ \A i, j \in DOMAIN s_result.chunks :
              i < j => \A o \in Offsets, q \in Offsets :
                          LocatedAt(i, o) /\ LocatedAt(j, q) => o < q
        /\ \A p \in DOMAIN s_args.text :
              ~IsSpace(s_args.text[p]) =>
                  \E i \in DOMAIN s_result.chunks, o \in Offsets :
                      /\ LocatedAt(i, o)
                      /\ o < p
                      /\ p <= o + Len(s_result.chunks[i].text)

\* chunk_text has returned three chunks or more, after a window of
\* whitespace that it skipped, for a text with a newline the windows broke at.
C39_Witness ==
    /\ ChunksReturned
    /\ Len(s_result.chunks) >= 3
    /\ s_result.iterations > Len(s_result.chunks)
    /\ s_args.chunk_overlap > 0


(***************************************************************************)
(* SpecMigrations: run_migrations of migrate.py, called again and again    *)
(* on one database.  A migration file is named by the number its name      *)
(* starts with.  s_args holds what outlasts a call - the migrations        *)
(* directory, the database, the calls made -, s_result the position of the *)
(* running call.  Any statement sent to the database may raise, and files  *)
(* may be added to the directory between two calls.                        *)
(***************************************************************************)
MaxFiles == 3

MaxRuns == 3

MigrationNames == 1..MaxFiles

\* The database: whether _migrations exists, its rows, and how many times
\* the effects of each migration file have been committed.
EmptyDatabase ==
    [tracking |-> FALSE, recorded |-> {}, effects |-> [n \in MigrationNames |-> 0]]

\* What a transaction has written: the effects of files and _migrations rows.
NoWrites == [effects |-> {}, records |-> {}]

\* conn.commit()
commit(db, writes) ==
    [tracking |-> db.tracking,
     recorded |-> db.recorded \cup writes.records,
     effects |-> [n \in MigrationNames |->
                     IF n \in writes.effects THEN db.effects[n] + 1 ELSE db.effects[n]]]

\* A close that commits what the transaction wrote.
closeCommits(db, writes) == commit(db, writes)

\* conn.close(): what the transaction wrote and did not commit is gone.
close(db, writes) == db

\* glob.glob: the files of the directory in any order.
glob(dir) ==
    {order \in [1..Cardinality(dir) -> dir] :
        \A i, j \in DOMAIN order : i # j => order[i] # order[j]}

\* sorted(files)
RECURSIVE sorted(_)
sorted(files) ==
    IF files = <<>> THEN <<>>
    ELSE LET least == CHOOSE i \in DOMAIN files : \A j \in DOMAIN files : files[i] <= files[j]
         IN <<files[least]>> \o sorted(SelectSeq(files, LAMBDA f : f # files[least]))

Migrate(dir, db, runs) == [op |-> "migrate", dir |-> dir, db |-> db, runs |-> runs]

\* A call of run_migrations: where it is, get_migration_files(), the names
\* read from _migrations, the index of the file the loop is at, the names
\* applied so far, the writes not yet committed, the files whose SQL the
\* call has sent, the _migrations rows it found, and the file it failed at.
Run(pc, files, applied, i, newly_applied, writes, executed, found, failed) ==
    [op |-> "run_migrations", pc |-> pc, files |-> files, applied |-> applied, i |-> i,
     newly_applied |-> newly_applied, writes |-> writes, executed |-> executed,
     found |-> found, failed |-> failed]

InitMigrations ==
    /\ \E dir \in SUBSET MigrationNames : s_args = Migrate(dir, EmptyDatabase, 0)
    /\ s_result = NoCall
    /\ config = CfgEngine
    /\ tables = [t \in TableNames |-> {}]
    /\ exists = {MainTable}
    /\ overlay_meta = {}
    /\ BuildAtRest
    /\ RefreshAtRest

NoRunGoingOn ==
    \/ s_result = NoCall
    \/ s_result.op = "run_migrations" /\ s_result.pc \in {"returned", "raised"}

InLoop == s_result.op = "run_migrations" /\ s_result.pc = "loop"

AtFile == InLoop /\ s_result.i <= Len(s_result.files)

\* connect, ensure_migrations_table (committed), get_applied_migrations,
\* get_migration_files.
RunMigrations ==
    /\ s_args.op = "migrate"
    /\ NoRunGoingOn
    /\ s_args.runs < MaxRuns
    /\ \E order \in glob(s_args.dir) :
          s_result' = Run("loop", sorted(order), s_args.db.recorded, 1, <<>>, NoWrites, <<>>,
                          s_args.db.recorded, 0)
    /\ s_args' = Migrate(s_args.dir, [s_args.db EXCEPT !.tracking = TRUE], s_args.runs + 1)
    /\ UNCHANGED <<config, storeVars, buildVars, refreshVars>>

\* Between two calls a migration file is added to the directory.
AddMigration ==
    /\ s_args.op = "migrate"
    /\ NoRunGoingOn
    /\ \E n \in MigrationNames \ s_args.dir :
          s_args' = Migrate(s_args.dir \cup {n}, s_args.db, s_args.runs)
    /\ UNCHANGED <<config, s_result, storeVars, buildVars, refreshVars>>

\* if name in applied: continue
Continue ==
    /\ AtFile
    /\ s_result.files[s_result.i] \in s_result.applied
    /\ s_result' = [s_result EXCEPT !.i = @ + 1]
    /\ UNCHANGED <<config, s_args, storeVars, buildVars, refreshVars>>

\* apply_migration: cur.execute(sql)
ExecuteSql ==
    /\ AtFile
    /\ s_result.files[s_result.i] \notin s_result.applied
    /\ s_result' = [s_result EXCEPT
                      !.pc = "executed",
                      !.writes.effects = @ \cup {s_result.files[s_result.i]},
                      !.executed = Append(@, s_result.files[s_result.i])]
    /\ UNCHANGED <<config, s_args, storeVars, buildVars, refreshVars>>

\* apply_migration: INSERT INTO _migrations (name)
InsertRecord ==
    /\ s_result.op = "run_migrations"
    /\ s_result.pc = "executed"
    /\ s_result' = [s_result EXCEPT
                      !.pc = "inserted",
                      !.writes.records = @ \cup {s_result.files[s_result.i]}]
    /\ UNCHANGED <<config, s_args, storeVars, buildVars, refreshVars>>

\* apply_migration: conn.commit(); then newly_applied.append(name)
CommitMigration ==
    /\ s_result.op = "run_migrations"
    /\ s_result.pc = "inserted"
    /\ s_args' = Migrate(s_args.dir, commit(s_args.db, s_result.writes), s_args.runs)
    /\ s_result' = [s_result EXCEPT
                      !.pc = "loop", !.writes = NoWrites, !.i = @ + 1,
                      !.newly_applied = Append(@, s_result.files[s_result.i])]
    /\ UNCHANGED <<config, storeVars, buildVars, refreshVars>>

\* A statement of apply_migration raises - the file's SQL, the INSERT or the
\* commit -: the exception leaves run_migrations through `finally`.
MigrationRaises ==
    /\ \/ AtFile /\ s_result.files[s_result.i] \notin s_result.applied
       \/ s_result.op = "run_migrations" /\ s_result.pc \in {"executed", "inserted"}
    /\ s_args' = Migrate(s_args.dir, close(s_args.db, s_result.writes), s_args.runs)
    /\ s_result' = [s_result EXCEPT
                      !.pc = "raised", !.writes = NoWrites,
                      !.failed = s_result.files[s_result.i],
                      !.executed = IF s_result.pc = "loop"
                                   THEN Append(@, s_result.files[s_result.i]) ELSE @]
    /\ UNCHANGED <<config, storeVars, buildVars, refreshVars>>

\* The loop is over: return newly_applied, through `finally`.
RunReturns ==
    /\ InLoop
    /\ s_result.i > Len(s_result.files)
    /\ s_args' = Migrate(s_args.dir, close(s_args.db, s_result.writes), s_args.runs)
    /\ s_result' = [s_result EXCEPT !.pc = "returned"]
    /\ UNCHANGED <<config, storeVars, buildVars, refreshVars>>

NextMigrations ==
    \/ RunMigrations
    \/ AddMigration
    \/ Continue
    \/ ExecuteSql
    \/ InsertRecord
    \/ CommitMigration
    \/ MigrationRaises
    \/ RunReturns

SpecMigrations == InitMigrations /\ [][NextMigrations]_vars

Migrating == s_result.op = "run_migrations"

\* The files a call found that _migrations did not record, lowest name first.
RECURSIVE Ascending(_)
Ascending(names) ==
    IF names = {} THEN <<>>
    ELSE LET least == CHOOSE n \in names : \A m \in names : n <= m
         IN <<least>> \o Ascending(names \ {least})

Pending == Ascending(ItemsOf(s_result.files) \ s_result.found)

\* C40: over any sequence of run_migrations calls the effects of a migration
\* file are committed once at most, and in one commit with its _migrations
\* row.  A call that returns has executed the files that _migrations did not
\* record when it began, each once, lowest name first, and returns their
\* names - the empty list, having executed nothing, when none was pending.
\* When a migration fails, the files applied before it in that call are
\* applied and recorded, and the failed one is neither.
C40_EachMigrationAppliedOnce ==
    Migrating =>
        /\ \A n \in MigrationNames :
              /\ s_args.db.effects[n] <= 1
              /\ s_args.db.effects[n] = 1 <=> n \in s_args.db.recorded
        /\ s_result.pc = "returned" =>
              /\ s_result.newly_applied = Pending
              /\ s_result.executed = Pending
              /\ s_args.db.recorded = s_result.found \cup ItemsOf(s_result.files)
        /\ s_result.pc = "raised" =>
              /\ \E k \in 0..Len(Pending) :
                    /\ s_result.newly_applied = SubSeq(Pending, 1, k)
                    /\ k < Len(Pending)
                    /\ s_result.failed = Pending[k + 1]
                    /\ s_result.executed = SubSeq(Pending, 1, k + 1)
              /\ s_args.db.recorded = s_result.found \cup ItemsOf(s_result.newly_applied)
              /\ s_args.db.effects[s_result.failed] = 0

\* In a call that came after another, a migration was applied and the next
\* one failed when its SQL had run and its row was to be inserted or
\* committed.
C40_Witness ==
    /\ Migrating
    /\ s_result.pc = "raised"
    /\ s_args.runs >= 2
    /\ s_result.found # {}
    /\ Len(s_result.newly_applied) >= 1
    /\ Len(s_result.executed) = Len(s_result.newly_applied) + 1
====
